---- MODULE Spec2Model ----
(***************************************************************************)
(* Generation orchestration layer of Spark-Ai: the tool dispatcher         *)
(* (services/geminiService.ts sendMessage), the two-stage image pipeline   *)
(* (executeGenerateImage), the chat session of App.tsx that drives them,   *)
(* and the studio's Consistency Memory (CompleteConsistencyAI).            *)
(*                                                                         *)
(* A JavaScript string is modelled as a sequence of tokens: "" is <<>>,    *)
(* a template literal is the concatenation of its pieces, and a string is  *)
(* truthy exactly when it is a non-empty sequence.                         *)
(***************************************************************************)
EXTENDS Integers, Sequences, FiniteSets, TLC

\* ------------------------------------------------------------------------
\* Bounds of the model
\* ------------------------------------------------------------------------
MaxTurns == 1          \* user turns sent in one behaviour
MaxImages == 1         \* images held in uploadedImages / faceReferences
MaxCalls == 2          \* tool calls in one function-calling response
MaxTasks == 2          \* handler invocations in flight at once
MaxResizes == 1        \* resizes executed in one run
MaxWords == 3          \* words of a prompt handed to the prompt builder

\* ------------------------------------------------------------------------
\* Values
\* ------------------------------------------------------------------------
Undefined == <<"<undefined>">>          \* an absent optional string field
Truthy(s) == s # <<>> /\ s # Undefined   \* JS truthiness of a string | undefined

Slots == {"face", "dress", "background", "environment"}
Null == "<null>"

Blob(d) == [data |-> d, mimeType |-> "image/png"]
UserBlobs == {Blob("A")}                 \* images a user can attach to a turn
PrimaryBytes == "P"                      \* imageBytes of the primary backend
SecondaryBlob == Blob("S")               \* inlineData of the secondary backend
ReferenceBlob == Blob("R")               \* inlineData of edit/resize/reference calls

\* `data:${mimeType};base64,${data}`
DataUri(mimeType, data) == [scheme |-> "data", mimeType |-> mimeType, data |-> data]

UserTexts == {<<>>, <<"hello">>}
ReplyTexts == {<<>>, <<"reply">>}
PromptArgs == {<<>>, <<"lion", "landscape">>}
QueryArgs == {<<>>, <<"weather">>}
RatioArgs == {<<"16:9">>}
ASPECT_RATIOS == {<<"1:1">>, <<"9:16">>} \* ratios offered by the selectors

\* ------------------------------------------------------------------------
\* Errors and the failure classifier
\* ------------------------------------------------------------------------
\* An error value: its message, and the markers found in JSON.stringify(error)
\* ("<circular>" when JSON.stringify itself throws).
Err(msg, json) == [message |-> msg, json |-> json]

BackendErrors ==
    { Err(<<"got status: 429 Too Many Requests">>, {}),
      Err(<<"request failed">>, {"RESOURCE_EXHAUSTED"}),
      Err(<<"You exceeded your current quota">>, {}),
      Err(<<"Failed to fetch">>, {}),
      Err(<<"timeout">>, {"<circular>"}) }

\* The markers isQuotaError looks for that occur in one token (String.includes
\* is case sensitive, so "Quota Exceeded" does not include "quota").
Markers(tok) ==
    CASE tok = "got status: 429 Too Many Requests" -> {"429"}
      [] tok = "You exceeded your current quota" -> {"quota"}
      [] tok = "Image generation quota exceeded. Please try again later." -> {"quota"}
      [] OTHER -> {}

Includes(s, marker) == \E i \in 1..Len(s) : marker \in Markers(s[i])

\* isQuotaError without the look into JSON.stringify(error).
isQuotaError_MessageOnly(error) ==
    /\ "<circular>" \notin error.json
    /\ \/ Includes(error.message, "429")
       \/ Includes(error.message, "RESOURCE_EXHAUSTED")
       \/ Includes(error.message, "quota")

isQuotaError(error) ==
    /\ "<circular>" \notin error.json
    /\ \/ Includes(error.message, "429")
       \/ Includes(error.message, "RESOURCE_EXHAUSTED")
       \/ Includes(error.message, "quota")
       \/ "429" \in error.json
       \/ "RESOURCE_EXHAUSTED" \in error.json

\* Did the backend report resource exhaustion with this error?
QuotaSignal(error) ==
    \/ Includes(error.message, "429") \/ "429" \in error.json
    \/ Includes(error.message, "RESOURCE_EXHAUSTED") \/ "RESOURCE_EXHAUSTED" \in error.json

\* ------------------------------------------------------------------------
\* Helper functions of geminiService.ts
\* ------------------------------------------------------------------------
IsImagePart(part) == part.kind = "inlineData"

\* Index of the last image part of a parts list, 0 when there is none.
LastImageIndex(parts) ==
    LET idx == {j \in 1..Len(parts) : IsImagePart(parts[j])}
    IN IF idx = {} THEN 0 ELSE CHOOSE j \in idx : \A k \in idx : k <= j

NoImage == [data |-> Null, mimeType |-> Null]

\* findLastImage scanning the history from its oldest entry and first part.
findLastImage_Forward(history, currentImages) ==
    IF Len(currentImages) > 0
    THEN currentImages[Len(currentImages)]
    ELSE LET withImage == {i \in 1..Len(history) : LastImageIndex(history[i].parts) # 0}
         IN IF withImage = {} THEN NoImage
            ELSE LET i == CHOOSE i \in withImage : \A k \in withImage : i <= k
                     idx == {j \in 1..Len(history[i].parts) : IsImagePart(history[i].parts[j])}
                     part == history[i].parts[CHOOSE j \in idx : \A k \in idx : j <= k]
                 IN [data |-> part.data, mimeType |-> part.mimeType]

findLastImage(history, currentImages) ==
    IF Len(currentImages) > 0
    THEN currentImages[Len(currentImages)]
    ELSE LET withImage == {i \in 1..Len(history) : LastImageIndex(history[i].parts) # 0}
         IN IF withImage = {} THEN NoImage
            ELSE LET i == CHOOSE i \in withImage : \A k \in withImage : k <= i
                     part == history[i].parts[LastImageIndex(history[i].parts)]
                 IN [data |-> part.data, mimeType |-> part.mimeType]

ResizeTerms == {"landscape", "portrait", "square", "1:1", "16:9", "9:16", "3:4", "4:3",
                "horizontal", "vertical", "wide", "tall", "panoramic"}

\* toLowerCase, and the case-insensitive match of the 'gi' flag, on the words
\* used in prompts.
Lower(w) ==
    CASE w = "Landscape" -> "landscape"
      [] w = "Desert" -> "desert"
      [] OTHER -> w

\* The keywords that String.includes finds inside one lower-case word.
Within(w) ==
    CASE w = "woman" -> {"woman", "man"}
      [] w = "landscapes" -> {"landscape"}
      [] w = "photorealistic" -> {"photorealistic", "realistic"}
      [] OTHER -> {w}

\* A cleaning whose patterns lack the 'i' flag.
cleanPromptForResize_CaseSensitive(prompt) ==
    IF ~Truthy(prompt) THEN <<>>
    ELSE SelectSeq(prompt, LAMBDA w : w \notin ResizeTerms)

\* Each term is removed where it stands as a whole word, in any case.
cleanPromptForResize(prompt) ==
    IF ~Truthy(prompt) THEN <<>>
    ELSE SelectSeq(prompt, LAMBDA w : Lower(w) \notin ResizeTerms)

\* promptLower.includes(keyword)
Occurs(keyword, words) ==
    IF keyword = "digital art"
    THEN \E j \in 1..(Len(words) - 1) :
            Lower(words[j]) = "digital" /\ Lower(words[j + 1]) = "art"
    ELSE \E j \in 1..Len(words) : keyword \in Within(Lower(words[j]))

FirstMatch(list, words, default) ==
    LET hits == {i \in 1..Len(list) : Occurs(list[i], words)}
    IN IF hits = {} THEN default
       ELSE list[CHOOSE i \in hits : \A k \in hits : i <= k]

Subjects == <<"lion", "person", "animal", "character", "figure", "man", "woman",
              "robot", "cat", "dog", "boy", "girl">>
Environments == <<"desert", "forest", "beach", "city", "room", "landscape", "mountain",
                  "space", "office", "studio">>
Styles == <<"cinematic", "realistic", "cartoon", "painting", "digital art", "anime",
            "photorealistic", "sketch">>

SizeInstructions(targetRatio) ==
    CASE targetRatio = <<"1:1">> -> "1080x1080 pixels"
      [] targetRatio = <<"9:16">> -> "1080x1920 pixels"
      [] targetRatio = <<"16:9">> -> "1920x1080 pixels"
      [] targetRatio = <<"3:4">> -> "1080x1440 pixels"
      [] targetRatio = <<"4:3">> -> "1440x1080 pixels"
      [] OTHER -> "the requested aspect ratio"

\* The heading of ratioInstructions and the words of its lines that name
\* an orientation.
RatioInstructions(targetRatio) ==
    CASE targetRatio = <<"1:1">> ->
           [heading |-> "SQUARE COMPOSITION (1:1)", words |-> {}]
      [] targetRatio = <<"9:16">> ->
           [heading |-> "VERTICAL PORTRAIT (9:16)", words |-> {"Tall", "portrait-oriented", "vertical"}]
      [] targetRatio = <<"16:9">> ->
           [heading |-> "WIDE LANDSCAPE (16:9)", words |-> {"Panoramic", "horizontal", "Wider"}]
      [] targetRatio = <<"3:4">> ->
           [heading |-> "VERTICAL PORTRAIT (3:4)", words |-> {"portrait", "vertical"}]
      [] targetRatio = <<"4:3">> ->
           [heading |-> "CLASSIC LANDSCAPE (4:3)", words |-> {"horizontal"}]
      [] OTHER ->
           [heading |-> "Adapt composition for aspect ratio", words |-> {}]

createAdvancedResizePrompt(originalPrompt, targetRatio) ==
    [scene |-> originalPrompt,
     target |-> targetRatio,
     size |-> SizeInstructions(targetRatio),
     ratio |-> RatioInstructions(targetRatio),
     subject |-> FirstMatch(Subjects, originalPrompt, "subject"),
     environment |-> FirstMatch(Environments, originalPrompt, "environment"),
     style |-> FirstMatch(Styles, originalPrompt, "realistic")]

\* ------------------------------------------------------------------------
\* Model Gateway: requests and the responses a backend can give
\* ------------------------------------------------------------------------
Thrown == {[kind |-> "throw", error |-> e] : e \in BackendErrors}

\* ai.models.generateContent / generateImages request, as the code builds it.
Request(api, model, images, prompt) ==
    [api |-> api, model |-> model, images |-> images, prompt |-> prompt]

ToolNames == {"generateImage", "editImage", "resizeImage", "generateFromReference",
              "searchTheWeb", "complexQuery", "resetFaceMemory"}

ToolCall(name, prompt, query, aspectRatio) ==
    [name |-> name, args |-> [prompt |-> prompt, query |-> query, aspectRatio |-> aspectRatio]]

\* Tool calls that conform to the declared schemas of `tools`, plus one call
\* of a name the dispatcher does not know.
ToolCalls ==
    {ToolCall(n, p, Undefined, Undefined) :
        n \in {"generateImage", "editImage", "generateFromReference"}, p \in PromptArgs}
    \cup {ToolCall("resizeImage", Undefined, Undefined, r) : r \in RatioArgs}
    \cup {ToolCall(n, Undefined, q, Undefined) :
        n \in {"searchTheWeb", "complexQuery"}, q \in QueryArgs}
    \cup {ToolCall("resetFaceMemory", Undefined, Undefined, Undefined),
          ToolCall("otherTool", Undefined, Undefined, Undefined)}

SeqsUpTo(S, n) == UNION {[1..k -> S] : k \in 0..n}

\* Responses of the function-calling completion.
SelectResponses ==
    {[kind |-> "ok", functionCalls |-> fc, text |-> t] :
        fc \in SeqsUpTo(ToolCalls, MaxCalls), t \in ReplyTexts}
    \cup Thrown

\* Responses of generateImages (imagen): imageBytes may be missing.
ImagesResponses ==
    {[kind |-> "ok", imageBytes |-> b] : b \in {"", PrimaryBytes}} \cup Thrown

\* Responses of an image-producing generateContent call: the first inlineData
\* part (NoImage when there is none) and response.text.
ContentResponses(blob) ==
    {[kind |-> "ok", inlineData |-> i, text |-> t] : i \in {NoImage, blob}, t \in ReplyTexts}
    \cup Thrown

\* Responses of the search / reasoning completions.
TextResponses ==
    {[kind |-> "ok", text |-> t, sources |-> s] : t \in ReplyTexts, s \in {Undefined, <<"uri">>}}
    \cup Thrown

\* ------------------------------------------------------------------------
\* GenerationResult: the return contract of sendMessage
\* ------------------------------------------------------------------------
ImgAbsent == [scheme |-> "<undefined>"]
ImgEmpty == [scheme |-> ""]
HasImage(img) == img.scheme = "data"

TextResult(text) ==
    [text |-> text, image |-> ImgAbsent, prompt |-> Undefined, sources |-> Undefined,
     needsAspectRatio |-> FALSE, pendingPrompt |-> Undefined, resetMemory |-> FALSE]

\* An image result that is still marked as awaiting an aspect ratio.
ImageResult_StillPending(image, text, prompt) ==
    [TextResult(text) EXCEPT !.image = image, !.prompt = prompt,
                             !.needsAspectRatio = TRUE, !.pendingPrompt = prompt]

ImageResult(image, text, prompt) ==
    [TextResult(text) EXCEPT !.image = image, !.prompt = prompt]

Return(v) == [kind |-> "return", value |-> v]
Throw(msg) == [kind |-> "throw", error |-> Err(msg, {})]   \* throw new Error(msg)
Rethrow(e) == [kind |-> "throw", error |-> e]

FirstInline(response) ==
    IF response.inlineData = NoImage THEN ImgEmpty
    ELSE DataUri(response.inlineData.mimeType, response.inlineData.data)

OrElse(s, default) == IF Truthy(s) THEN s ELSE default

\* ------------------------------------------------------------------------
\* Tool implementations (the part of each that runs after its await)
\* ------------------------------------------------------------------------
executeGenerateImageRequest1(fullPrompt, aspectRatio) ==
    Request("generateImages", "imagen-4.0-generate-001", <<>>,
            [fullPrompt |-> fullPrompt, aspectRatio |-> aspectRatio])

\* A fallback request whose prompt is rebuilt without the target size.
executeGenerateImageRequest2_Rebuilt(fullPrompt) ==
    Request("generateContent", "gemini-2.5-flash-image", <<>>,
            [fullPrompt |-> [fullPrompt EXCEPT !.size = SizeInstructions(<<>>)]])

executeGenerateImageRequest2(fullPrompt) ==
    Request("generateContent", "gemini-2.5-flash-image", <<>>, [fullPrompt |-> fullPrompt])

\* Attempt 1 without its early return.
executeGenerateImageAttempt1_NoReturn(response) == [kind |-> "fallback"]

\* Attempt 1 of executeGenerateImage: return the image, or fall through.
executeGenerateImageAttempt1(response) ==
    IF response.kind = "ok" /\ response.imageBytes # ""
    THEN Return([image |-> DataUri("image/png", response.imageBytes)])
    ELSE [kind |-> "fallback"]

\* Attempt 2 that never finds the inlineData part.
executeGenerateImageAttempt2_NoPart(response) ==
    IF response.kind = "ok"
    THEN Throw(<<"No image was generated.">>)
    ELSE IF isQuotaError(response.error)
         THEN Throw(<<"Image generation quota exceeded. Please try again later.">>)
         ELSE Throw(<<"Failed to generate image. Please try again.">>)

\* Attempt 2 returning an empty image when the response has no inlineData.
executeGenerateImageAttempt2_Empty(response) ==
    IF response.kind = "ok"
    THEN Return([image |-> FirstInline(response)])
    ELSE IF isQuotaError(response.error)
         THEN Throw(<<"Image generation quota exceeded. Please try again later.">>)
         ELSE Throw(<<"Failed to generate image. Please try again.">>)

\* Attempt 2 of executeGenerateImage.
executeGenerateImageAttempt2(response) ==
    IF response.kind = "ok"
    THEN IF HasImage(FirstInline(response))
         THEN Return([image |-> FirstInline(response)])
         ELSE Throw(<<"No image was generated.">>)
    ELSE IF isQuotaError(response.error)
         THEN Throw(<<"Image generation quota exceeded. Please try again later.">>)
         ELSE Throw(<<"Failed to generate image. Please try again.">>)

\* A resume that reports a failed generation as a result without an image.
executePendingImageGeneration_Swallow(step, prompt) ==
    Return([image |-> IF step.kind = "return" THEN step.value.image ELSE ImgAbsent,
            text |-> <<"Here is the image I generated for you with your selected aspect ratio.">>,
            prompt |-> prompt])

executePendingImageGeneration(step, prompt) ==
    IF step.kind = "return"
    THEN Return([image |-> step.value.image,
                 text |-> <<"Here is the image I generated for you with your selected aspect ratio.">>,
                 prompt |-> prompt])
    ELSE step

executeEditImageRequest(prompt, image) ==
    Request("generateContent", "gemini-2.5-flash-image", <<image>>,
            [template |-> "edit", user |-> prompt])

\* An edit that treats a response without an image as a failure.
executeEditImage_Throw(prompt, response) ==
    IF response.kind = "ok" /\ HasImage(FirstInline(response))
    THEN Return([image |-> FirstInline(response),
                 text |-> OrElse(response.text, <<"Here is your edited image.">>),
                 prompt |-> prompt])
    ELSE Throw(<<"Failed to edit image.">>)

executeEditImage(prompt, response) ==
    IF response.kind = "ok"
    THEN IF HasImage(FirstInline(response))
         THEN Return([image |-> FirstInline(response),
                      text |-> OrElse(response.text, <<"Here is your edited image.">>),
                      prompt |-> prompt])
         ELSE Return([image |-> ImgEmpty,
                      text |-> OrElse(response.text,
                          <<"I was unable to edit the image as requested. Please try a different prompt.">>),
                      prompt |-> prompt])
    ELSE IF isQuotaError(response.error)
         THEN Throw(<<"Usage limit exceeded for image editing. Please try again later.">>)
         ELSE Throw(<<"Failed to edit image.">>)

\* A reference request that carries only the first of the images.
generateFromReferenceRequest_FirstOnly(prompt, images) ==
    Request("generateContent", "gemini-2.5-flash-image", <<images[1]>>,
            [template |-> "reference", user |-> prompt])

generateFromReferenceRequest(prompt, images) ==
    Request("generateContent", "gemini-2.5-flash-image", images,
            [template |-> "reference", user |-> prompt])

generateFromReference(prompt, response) ==
    IF response.kind = "ok"
    THEN IF HasImage(FirstInline(response))
         THEN Return([image |-> FirstInline(response),
                      text |-> OrElse(response.text,
                          <<"Here is your generated image with face consistency preserved.">>),
                      prompt |-> prompt])
         ELSE Return([image |-> ImgEmpty,
                      text |-> OrElse(response.text,
                          <<"I was unable to generate the image from the reference.">>),
                      prompt |-> prompt])
    ELSE IF isQuotaError(response.error)
         THEN Throw(<<"Usage limit exceeded. Please try again later.">>)
         ELSE Throw(<<"Failed to generate image from reference.">>)

executeSearchRequest(query) ==
    Request("generateContent", "gemini-2.5-flash", <<>>, [template |-> "search", user |-> query])

executeSearch(response) ==
    IF response.kind = "ok"
    THEN Return([text |-> response.text, sources |-> response.sources])
    ELSE Throw(<<"Failed to get information from Google Search.">>)

executeComplexQueryRequest(query) ==
    Request("generateContent", "gemini-2.5-pro", <<>>, [template |-> "complex", user |-> query])

executeComplexQuery(response) ==
    IF response.kind = "ok"
    THEN Return([text |-> response.text])
    ELSE Throw(<<"Failed to process the complex query.">>)

resizeImageRequest(image, aspectRatio, originalPrompt) ==
    Request("generateContent", "gemini-2.5-flash-image", <<image>>,
            [template |-> "resize", aspectRatio |-> aspectRatio,
             size |-> SizeInstructions(aspectRatio), scene |-> originalPrompt])

resizeImage(aspectRatio, response) ==
    LET caught == IF response.kind = "ok"
                  THEN Err(OrElse(response.text, <<"The model failed to resize the image.">>), {})
                  ELSE response.error
    IN IF response.kind = "ok" /\ HasImage(FirstInline(response))
       THEN Return([image |-> FirstInline(response),
                    text |-> <<"Here is your image, resized to ">> \o aspectRatio \o <<".">>])
       ELSE IF isQuotaError(caught)
            THEN Throw(<<"Usage limit exceeded. Please try again later.">>)
            ELSE Rethrow(caught)

\* ------------------------------------------------------------------------
\* Tool dispatcher: sendMessage
\* ------------------------------------------------------------------------
Call(handler, request, arg) ==
    [kind |-> "call", handler |-> handler, request |-> request, arg |-> arg]

\* generateFromReference up to its await.
generateFromReferenceStart(prompt, images) ==
    IF Len(images) = 0
    THEN Throw(<<"No reference images provided.">>)
    ELSE Call("generateFromReference", generateFromReferenceRequest(prompt, images), prompt)

sendMessageRequest(text, images, history) ==
    Request("generateContent", "gemini-flash-lite-latest", images,
            [template |-> "chat", user |-> text, history |-> history])

\* The catch block of sendMessage.
sendMessageCatch(error) ==
    IF isQuotaError(error)
    THEN TextResult(<<"I apologize, but I'm currently experiencing high traffic (Quota Exceeded). Please try again in a few moments.">>)
    ELSE TextResult(<<"An error occurred: ">> \o error.message)

\* The resetFaceMemory branch without the resetMemory flag.
sendMessageResetFaceMemory_NoFlag ==
    Return(TextResult(<<"Face memory has been reset. Please upload new face photos for the next generation.">>))

\* The resetFaceMemory branch of sendMessage.
sendMessageResetFaceMemory ==
    Return([TextResult(<<"Face memory has been reset. Please upload new face photos for the next generation.">>)
            EXCEPT !.resetMemory = TRUE])

\* The generateImage branch passing on only the last attached image.
sendMessageGenerateImage_LastOnly(prompt, images) ==
    IF Len(images) > 0
    THEN generateFromReferenceStart(prompt, <<images[Len(images)]>>)
    ELSE Return([TextResult(<<"I can generate an image of \"">> \o prompt
                            \o <<"\". Please select an aspect ratio.">>)
                 EXCEPT !.needsAspectRatio = TRUE, !.pendingPrompt = prompt])

\* The generateImage branch without the rerouting to generateFromReference.
sendMessageGenerateImage_NoReroute(prompt, images) ==
    Return([TextResult(<<"I can generate an image of \"">> \o prompt
                       \o <<"\". Please select an aspect ratio.">>)
            EXCEPT !.needsAspectRatio = TRUE, !.pendingPrompt = prompt])

\* The generateImage branch of sendMessage.
sendMessageGenerateImage(prompt, images) ==
    IF Len(images) > 0
    THEN generateFromReferenceStart(prompt, images)
    ELSE Return([TextResult(<<"I can generate an image of \"">> \o prompt
                            \o <<"\". Please select an aspect ratio.">>)
                 EXCEPT !.needsAspectRatio = TRUE, !.pendingPrompt = prompt])

\* The image-dependent tools with a resize branch that does not look whether
\* an image was found.
sendMessageImageTool_NoCheck(toolName, toolArgs, images, history) ==
    LET lastImage == findLastImage(history, images)
        sorry == Return(TextResult(
            <<"I'm sorry, I couldn't find an image to work with. Please upload one first.">>))
    IN CASE toolName = "editImage" ->
              IF lastImage = NoImage THEN sorry
              ELSE Call("editImage", executeEditImageRequest(toolArgs.prompt, lastImage),
                        toolArgs.prompt)
         [] toolName = "resizeImage" ->
              Call("resizeImage",
                   resizeImageRequest(lastImage, toolArgs.aspectRatio, Undefined),
                   toolArgs.aspectRatio)
         [] toolName = "generateFromReference" ->
              LET lastHistoryImage == findLastImage(history, <<>>)
                  allImages == IF Len(images) > 0 THEN images
                               ELSE IF lastHistoryImage # NoImage THEN <<lastHistoryImage>>
                               ELSE <<>>
              IN IF Len(allImages) = 0
                 THEN Return(TextResult(<<"Please upload your face image for consistency.">>))
                 ELSE generateFromReferenceStart(toolArgs.prompt, allImages)

\* The image-dependent tools of sendMessage.
sendMessageImageTool(toolName, toolArgs, images, history) ==
    LET lastImage == findLastImage(history, images)
        sorry == Return(TextResult(
            <<"I'm sorry, I couldn't find an image to work with. Please upload one first.">>))
    IN CASE toolName = "editImage" ->
              IF lastImage = NoImage THEN sorry
              ELSE Call("editImage", executeEditImageRequest(toolArgs.prompt, lastImage),
                        toolArgs.prompt)
         [] toolName = "resizeImage" ->
              IF lastImage = NoImage THEN sorry
              ELSE Call("resizeImage",
                        resizeImageRequest(lastImage, toolArgs.aspectRatio, Undefined),
                        toolArgs.aspectRatio)
         [] toolName = "generateFromReference" ->
              LET lastHistoryImage == findLastImage(history, <<>>)
                  allImages == IF Len(images) > 0 THEN images
                               ELSE IF lastHistoryImage # NoImage THEN <<lastHistoryImage>>
                               ELSE <<>>
              IN IF Len(allImages) = 0
                 THEN Return(TextResult(<<"Please upload your face image for consistency.">>))
                 ELSE generateFromReferenceStart(toolArgs.prompt, allImages)

\* sendMessage acting on the last tool call of the response.
sendMessageDispatch_LastCall(text, images, history, response) ==
    IF response.kind = "throw" THEN Return(sendMessageCatch(response.error))
    ELSE IF Len(response.functionCalls) = 0 THEN Return(TextResult(response.text))
    ELSE LET tool == response.functionCalls[Len(response.functionCalls)]
             toolName == tool.name
             toolArgs == tool.args
             step ==
               CASE toolName = "resetFaceMemory" -> sendMessageResetFaceMemory
                 [] toolName = "searchTheWeb" ->
                      Call("searchTheWeb", executeSearchRequest(OrElse(toolArgs.query, text)),
                           OrElse(toolArgs.query, text))
                 [] toolName = "complexQuery" ->
                      Call("complexQuery", executeComplexQueryRequest(OrElse(toolArgs.query, text)),
                           OrElse(toolArgs.query, text))
                 [] toolName = "generateImage" ->
                      sendMessageGenerateImage(toolArgs.prompt, images)
                 [] toolName \in {"editImage", "resizeImage", "generateFromReference"} ->
                      sendMessageImageTool(toolName, toolArgs, images, history)
                 [] OTHER ->
                      Return(TextResult(<<"I'm not sure how to handle that tool call.">>))
         IN IF step.kind = "throw" THEN Return(sendMessageCatch(step.error)) ELSE step

\* sendMessage from the return of the function-calling completion up to its
\* next await or its return.
sendMessageDispatch(text, images, history, response) ==
    IF response.kind = "throw" THEN Return(sendMessageCatch(response.error))
    ELSE IF Len(response.functionCalls) = 0 THEN Return(TextResult(response.text))
    ELSE LET tool == response.functionCalls[1]
             toolName == tool.name
             toolArgs == tool.args
             step ==
               CASE toolName = "resetFaceMemory" -> sendMessageResetFaceMemory
                 [] toolName = "searchTheWeb" ->
                      Call("searchTheWeb", executeSearchRequest(OrElse(toolArgs.query, text)),
                           OrElse(toolArgs.query, text))
                 [] toolName = "complexQuery" ->
                      Call("complexQuery", executeComplexQueryRequest(OrElse(toolArgs.query, text)),
                           OrElse(toolArgs.query, text))
                 [] toolName = "generateImage" ->
                      sendMessageGenerateImage(toolArgs.prompt, images)
                 [] toolName \in {"editImage", "resizeImage", "generateFromReference"} ->
                      sendMessageImageTool(toolName, toolArgs, images, history)
                 [] OTHER ->
                      Return(TextResult(<<"I'm not sure how to handle that tool call.">>))
         IN IF step.kind = "throw" THEN Return(sendMessageCatch(step.error)) ELSE step

\* The responses the gateway can give to the call a handler awaits.
HandlerResponses(handler) ==
    CASE handler \in {"searchTheWeb", "complexQuery"} -> TextResponses
      [] OTHER -> ContentResponses(ReferenceBlob)

\* The same without the catch block: a handler's exception leaves sendMessage.
sendMessageResume_NoCatch(handler, arg, response) ==
    LET step ==
          CASE handler = "searchTheWeb" -> executeSearch(response)
            [] handler = "complexQuery" -> executeComplexQuery(response)
            [] handler = "editImage" -> executeEditImage(arg, response)
            [] handler = "resizeImage" -> resizeImage(arg, response)
            [] handler = "generateFromReference" -> generateFromReference(arg, response)
    IN IF step.kind = "throw" THEN step
       ELSE CASE handler = "searchTheWeb" ->
                   Return([TextResult(step.value.text) EXCEPT !.sources = step.value.sources])
              [] handler = "complexQuery" -> Return(TextResult(step.value.text))
              [] handler = "resizeImage" ->
                   Return(ImageResult(step.value.image, step.value.text, <<"resized">>))
              [] OTHER ->
                   Return(ImageResult(step.value.image, step.value.text, step.value.prompt))

\* sendMessage from the return of a handler's gateway call to its return.
sendMessageResume(handler, arg, response) ==
    LET step ==
          CASE handler = "searchTheWeb" -> executeSearch(response)
            [] handler = "complexQuery" -> executeComplexQuery(response)
            [] handler = "editImage" -> executeEditImage(arg, response)
            [] handler = "resizeImage" -> resizeImage(arg, response)
            [] handler = "generateFromReference" -> generateFromReference(arg, response)
    IN IF step.kind = "throw" THEN Return(sendMessageCatch(step.error))
       ELSE CASE handler = "searchTheWeb" ->
                   Return([TextResult(step.value.text) EXCEPT !.sources = step.value.sources])
              [] handler = "complexQuery" -> Return(TextResult(step.value.text))
              [] handler = "resizeImage" ->
                   Return(ImageResult(step.value.image, step.value.text, <<"resized">>))
              [] OTHER ->
                   Return(ImageResult(step.value.image, step.value.text, step.value.prompt))

\* ------------------------------------------------------------------------
\* State of the session (App.tsx) and of the operations in flight
\* ------------------------------------------------------------------------
VARIABLES
    messages,        \* ChatMessage[] of the chat
    isProcessing,    \* the chat's busy flag
    uploadedImages,  \* images attached to the turn being composed
    faceReferences,  \* the chat's stored face references
    resizeTask,      \* the message whose resize dialog is open, or NoResizeTask
    memory,          \* the four slots of the CompleteConsistencyAI object
    nextId,          \* source of message identifiers (Date.now())
    tasks,           \* async handler invocations: locals and position
    inflight,        \* gateway calls started and not yet returned: <<task, call#>>
    done,            \* the handler invocation that completed in the last step
    studio,          \* local state of the mounted ConsistencyStudio component
    otherMemory      \* the four slots of a second CompleteConsistencyAI object

vars == <<messages, isProcessing, uploadedImages, faceReferences, resizeTask,
          memory, nextId, tasks, inflight, done, studio, otherMemory>>

TaskIds == 1..MaxTasks
IdleTask == [pc |-> "idle"]
NoResizeTask == [id |-> -1]
FaceBlobs == {Blob("F")}
StudioBlobs == {Blob("M")}

ChatMessage(id, sender, text, images) ==
    [id |-> id, sender |-> sender, text |-> text, images |-> images,
     sources |-> Undefined, prompt |-> Undefined,
     isLoading |-> FALSE, isError |-> FALSE, needsAspectRatio |-> FALSE,
     feedback |-> Undefined]

InitMessage == ChatMessage(0, "bot", <<"Hello! I am PAK AI.">>, <<>>)

\* A test that takes every bot message for the one looked for.
SameMessage_AnyBot(msg, id) == msg.sender = "bot"

\* A test that also takes the message sent just before the one looked for.
SameMessage_OrPrevious(msg, id) == msg.id = id \/ msg.id = id - 1

\* msg.id === id
SameMessage(msg, id) == msg.id = id

\* prev.map(msg => msg.id === id ? f(msg) : msg)
MapMessage(msgs, id, f(_)) ==
    [i \in 1..Len(msgs) |-> IF SameMessage(msgs[i], id) THEN f(msgs[i]) ELSE msgs[i]]

\* imgDataUrl.split(',') and the mime type match of the history builders.
InlinePart(uri) == [kind |-> "inlineData", mimeType |-> uri.mimeType, data |-> uri.data]
TextPart(text) == [kind |-> "text", text |-> text]

MessageParts(msg) ==
    LET withData == SelectSeq(msg.images, LAMBDA uri : uri.data # "")
    IN (IF Truthy(msg.text) THEN <<TextPart(msg.text)>> ELSE <<>>)
       \o [i \in 1..Len(withData) |-> InlinePart(withData[i])]

RECURSIVE HistoryFrom(_)
HistoryFrom(msgs) ==
    IF msgs = <<>> THEN <<>>
    ELSE LET msg == Head(msgs)
             keep == msg.id # 0 /\ ~msg.isError /\ ~msg.isLoading
                     /\ MessageParts(msg) # <<>>
             content == [role |-> IF msg.sender = "user" THEN "user" ELSE "model",
                         parts |-> MessageParts(msg)]
         IN (IF keep THEN <<content>> ELSE <<>>) \o HistoryFrom(Tail(msgs))

\* A history that takes every message as it stands.
historyForAPI_All(msgs) ==
    [i \in 1..Len(msgs) |->
        [role |-> IF msgs[i].sender = "user" THEN "user" ELSE "model",
         parts |-> MessageParts(msgs[i])]]

historyForAPI(msgs) == HistoryFrom(msgs)

NoDone == [op |-> "none"]

\* The useState initial values of ConsistencyStudio when it is mounted on an
\* object whose slots hold `mem`.
NoGeneratedImage == [scheme |-> "<null>"]

MountStudio(mem) ==
    [generatedImage |-> NoGeneratedImage,
     loading |-> FALSE,
     consistencySettings |-> [face |-> "consistent", dress |-> "change",
                              background |-> "change", environment |-> "change"],
     memoryStatus |-> [face |-> mem.face, dress |-> mem.dress,
                       background |-> mem.background, environment |-> mem.environment]]

Init ==
    /\ messages = <<InitMessage>>
    /\ isProcessing = FALSE
    /\ uploadedImages = <<>>
    /\ faceReferences = <<>>
    /\ resizeTask = NoResizeTask
    /\ memory = [s \in Slots |-> Null]
    /\ nextId = 1
    /\ tasks = [t \in TaskIds |-> IdleTask]
    /\ inflight = {}
    /\ done = NoDone
    /\ studio = MountStudio([s \in Slots |-> Null])
    /\ otherMemory = [s \in Slots |-> Null]

FreeTask == CHOOSE t \in TaskIds : tasks[t] = IdleTask /\ \A u \in TaskIds : tasks[u] = IdleTask => t <= u
HasFreeTask == \E t \in TaskIds : tasks[t] = IdleTask
\* User turns sent in this behaviour (the messages of an earlier part of the
\* conversation carry identifiers below that of the init message's successor).
UserTurns ==
    Cardinality({i \in 1..Len(messages) : messages[i].sender = "user" /\ messages[i].id > 0})

\* ------------------------------------------------------------------------
\* Chat: composing a turn
\* ------------------------------------------------------------------------
\* handleFileChange with one chosen file (the attach buttons are disabled
\* while isProcessing).
handleFileChange(blob, isFaceReference) ==
    /\ ~isProcessing
    /\ IF isFaceReference
       THEN /\ blob \in FaceBlobs
            /\ Len(faceReferences) < MaxImages
            /\ faceReferences' = Append(faceReferences, blob)
            /\ UNCHANGED uploadedImages
       ELSE /\ blob \in UserBlobs
            /\ Len(uploadedImages) < MaxImages
            /\ uploadedImages' = Append(uploadedImages, blob)
            /\ UNCHANGED faceReferences
    /\ done' = NoDone
    /\ UNCHANGED <<otherMemory, studio, messages, isProcessing, resizeTask, memory, nextId, tasks, inflight>>

RemoveAt(seq, i) == [k \in 1..(Len(seq) - 1) |-> IF k < i THEN seq[k] ELSE seq[k + 1]]

removeUploadedImage(indexToRemove) ==
    /\ indexToRemove \in 1..Len(uploadedImages)
    /\ uploadedImages' = RemoveAt(uploadedImages, indexToRemove)
    /\ done' = NoDone
    /\ UNCHANGED <<otherMemory, studio, messages, isProcessing, faceReferences, resizeTask, memory, nextId,
                   tasks, inflight>>

removeFaceReference(indexToRemove) ==
    /\ indexToRemove \in 1..Len(faceReferences)
    /\ faceReferences' = RemoveAt(faceReferences, indexToRemove)
    /\ done' = NoDone
    /\ UNCHANGED <<otherMemory, studio, messages, isProcessing, uploadedImages, resizeTask, memory, nextId,
                   tasks, inflight>>

\* ------------------------------------------------------------------------
\* Studio: Consistency Memory
\* ------------------------------------------------------------------------
\* A setter that keeps what the slot already holds.
setReference_KeepFirst(mem, slot, base64) ==
    IF mem[slot] = Null THEN [mem EXCEPT ![slot] = base64] ELSE mem

\* A setter that resets the slots it was not called for.
setReference_Only(mem, slot, base64) ==
    [s \in Slots |-> IF s = slot THEN base64 ELSE Null]

setReference(mem, slot, base64) == [mem EXCEPT ![slot] = base64]

getMemories(mem) ==
    [face |-> mem.face, dress |-> mem.dress,
     background |-> mem.background, environment |-> mem.environment]

\* A clear that empties every slot.
clearMemory_All(mem, element) ==
    [face |-> Null, dress |-> Null, background |-> Null, environment |-> Null]

clearMemory(mem, element) ==
    CASE element = "face" -> [mem EXCEPT !.face = Null]
      [] element = "dress" -> [mem EXCEPT !.dress = Null]
      [] element = "background" -> [mem EXCEPT !.background = Null]
      [] element = "environment" -> [mem EXCEPT !.environment = Null]

\* clearAllMemories that resets the face slot only.
clearAllMemories_FaceOnly(mem) == [mem EXCEPT !.face = Null]

clearAllMemories(mem) ==
    [face |-> Null, dress |-> Null, background |-> Null, environment |-> Null]

\* reader.readAsDataURL(file)
readAsDataURL(blob) == DataUri(blob.mimeType, blob.data)

\* The text of a data URI kept whole.
AfterComma_Whole(uri) == "data:" \o uri.mimeType \o ";base64," \o uri.data

\* dataUri.split(',')[1]
AfterComma(uri) == uri.data

\* handleReferenceUpload: FileReader result with the data-URI header split off.
handleReferenceUpload(currentUploadType, blob) ==
    /\ memory' = setReference(memory, currentUploadType, AfterComma(readAsDataURL(blob)))
    /\ studio' = [studio EXCEPT !.memoryStatus = getMemories(memory')]
    /\ done' = NoDone
    /\ UNCHANGED <<otherMemory, messages, isProcessing, uploadedImages, faceReferences, resizeTask,
                   nextId, tasks, inflight>>

\* ------------------------------------------------------------------------
\* Studio: generation with consistency control and element extraction
\* ------------------------------------------------------------------------
StudioTypes == {"face", "dress"}         \* element types used in studio runs
StudioPrompts == {<<"queen">>}
GeneratedBlob == Blob("G")               \* inlineData of a studio generation
ExtractedBlob == Blob("X")               \* inlineData of an extraction
SlotOrder == <<"face", "dress", "background", "environment">>

\* The instruction line of buildSmartPrompt for an attribute kept as in the
\* reference, and the one for an attribute created anew.
KeepInstruction ==
    [face |-> "FACE: Keep EXACTLY same face from reference - identical features, structure, identity",
     dress |-> "DRESS: Maintain EXACT same clothing/outfit from reference",
     background |-> "BACKGROUND: Keep EXACT same background scene from reference",
     environment |-> "ENVIRONMENT: Maintain EXACT same environment, lighting, atmosphere from reference"]

CreateInstruction ==
    [face |-> "FACE: Create new face based on context",
     dress |-> "DRESS: Create new clothing based on user request",
     background |-> "BACKGROUND: Create new background based on user request",
     environment |-> "ENVIRONMENT: Create new environment based on user request"]

buildSmartPrompt(userPrompt, settings, aspectRatio) ==
    [user |-> userPrompt,
     instructions |-> [i \in 1..Len(SlotOrder) |->
                          IF settings[SlotOrder[i]] = "consistent"
                          THEN KeepInstruction[SlotOrder[i]]
                          ELSE CreateInstruction[SlotOrder[i]]],
     aspectRatio |-> aspectRatio]

\* The request of generateWithControl: the memories whose setting is
\* 'consistent' and that are set, as image/png parts, then the prompt.
generateWithControlRequest(mem, userPrompt, settings, aspectRatio) ==
    LET used == SelectSeq(SlotOrder,
                    LAMBDA slot : settings[slot] = "consistent"
                                  /\ mem[slot] # Null /\ mem[slot] # "")
    IN Request("generateContent", "gemini-2.5-flash-image",
               [i \in 1..Len(used) |-> [data |-> mem[used[i]], mimeType |-> "image/png"]],
               buildSmartPrompt(userPrompt, settings, aspectRatio))

\* The catch block of generateWithControl and of extractElement (its
\* JSON.stringify is not guarded).
studioCatch(error, generic) ==
    IF "<circular>" \in error.json
    THEN Throw(<<"Converting circular structure to JSON">>)
    ELSE IF \/ Includes(error.message, "429") \/ Includes(error.message, "RESOURCE_EXHAUSTED")
            \/ "429" \in error.json \/ "RESOURCE_EXHAUSTED" \in error.json
         THEN Throw(<<"Quota limit reached. Please try again later.">>)
         ELSE Throw(generic)

\* generateWithControl after its await.
generateWithControl(settings, response) ==
    IF response.kind = "ok" /\ response.inlineData # NoImage /\ response.inlineData.data # ""
    THEN Return([imageData |-> DataUri("image/png", response.inlineData.data),
                 consistencySettings |-> settings,
                 generatedElements |-> [slot \in Slots |-> settings[slot] = "change"]])
    ELSE studioCatch(IF response.kind = "ok" THEN Err(<<"No image generated">>, {})
                     ELSE response.error,
                     <<"Failed to generate image with consistency control">>)

extractElementRequest(imageBase64, elementType) ==
    Request("generateContent", "gemini-2.5-flash-image",
            <<[data |-> imageBase64, mimeType |-> "image/png"]>>,
            [template |-> "extract", element |-> elementType])

\* extractElement that hands back an empty string when no element is returned.
extractElement_Empty(elementType, response) ==
    IF response.kind = "ok" /\ response.inlineData # NoImage /\ response.inlineData.data # ""
    THEN Return(response.inlineData.data)
    ELSE Return("")

\* extractElement after its await.
extractElement(elementType, response) ==
    IF response.kind = "ok" /\ response.inlineData # NoImage /\ response.inlineData.data # ""
    THEN Return(response.inlineData.data)
    ELSE studioCatch(IF response.kind = "ok"
                     THEN Err(<<"Failed to extract ", elementType>>, {})
                     ELSE response.error,
                     <<"Failed to extract ", elementType>>)

\* The select of one consistency setting.
setConsistencySettings(key, value) ==
    /\ studio.consistencySettings[key] # value
    /\ studio' = [studio EXCEPT !.consistencySettings[key] = value]
    /\ done' = NoDone
    /\ UNCHANGED <<otherMemory, messages, isProcessing, uploadedImages, faceReferences,
                   resizeTask, memory, nextId, tasks, inflight>>

\* Leaving the studio for the chat and coming back: the component is mounted
\* anew, and the setters of the handlers still running have no effect.
remountStudio ==
    /\ studio' = MountStudio(memory)
    /\ tasks' = [t \in TaskIds |->
                    IF tasks[t] # IdleTask /\ tasks[t].op \in {"generate", "extract"}
                    THEN [tasks[t] EXCEPT !.mounted = FALSE] ELSE tasks[t]]
    /\ done' = NoDone
    /\ UNCHANGED <<otherMemory, messages, isProcessing, uploadedImages, faceReferences,
                   resizeTask, memory, nextId, inflight>>

handleGenerate(prompt, aspectRatio) ==
    /\ ~studio.loading
    /\ Truthy(prompt)
    /\ HasFreeTask
    /\ studio' = [studio EXCEPT !.loading = TRUE]
    /\ tasks' = [tasks EXCEPT ![FreeTask] =
            [pc |-> "generate", op |-> "generate", mounted |-> TRUE,
             settings |-> studio.consistencySettings]]
    /\ inflight' = inflight \cup {<<FreeTask, 1>>}
    /\ done' = [op |-> "generateStart",
                request |-> generateWithControlRequest(memory, prompt,
                                studio.consistencySettings, aspectRatio)]
    /\ UNCHANGED <<otherMemory, messages, isProcessing, uploadedImages, faceReferences,
                   resizeTask, memory, nextId>>

\* The gateway call of generateWithControl returns: the rest of handleGenerate.
GenerateReturns(t, response) ==
    /\ tasks[t].pc = "generate"
    /\ <<t, 1>> \in inflight
    /\ response \in ContentResponses(GeneratedBlob)
    /\ LET result == generateWithControl(tasks[t].settings, response)
       IN /\ studio' =
               IF ~tasks[t].mounted THEN studio
               ELSE IF result.kind = "return"
               THEN [studio EXCEPT !.generatedImage = result.value.imageData,
                                   !.loading = FALSE]
               ELSE [studio EXCEPT !.loading = FALSE]
          /\ done' = [op |-> "generate", settled |-> result, response |-> response]
    /\ tasks' = [tasks EXCEPT ![t] = IdleTask]
    /\ inflight' = inflight \ {<<t, 1>>}
    /\ UNCHANGED <<otherMemory, messages, isProcessing, uploadedImages, faceReferences,
                   resizeTask, memory, nextId>>

handleExtract(type) ==
    /\ studio.generatedImage # NoGeneratedImage
    /\ ~studio.loading
    /\ HasFreeTask
    /\ studio' = [studio EXCEPT !.loading = TRUE]
    /\ tasks' = [tasks EXCEPT ![FreeTask] =
            [pc |-> "extract", op |-> "extract", mounted |-> TRUE, type |-> type]]
    /\ inflight' = inflight \cup {<<FreeTask, 1>>}
    /\ done' = [op |-> "extractStart", type |-> type,
                request |-> extractElementRequest(AfterComma(studio.generatedImage), type)]
    /\ UNCHANGED <<otherMemory, messages, isProcessing, uploadedImages, faceReferences,
                   resizeTask, memory, nextId>>

\* The gateway call of extractElement returns: the rest of handleExtract.
ExtractReturns(t, response) ==
    /\ tasks[t].pc = "extract"
    /\ <<t, 1>> \in inflight
    /\ response \in ContentResponses(ExtractedBlob)
    /\ LET type == tasks[t].type
           extracted == extractElement(type, response)
       IN /\ memory' = IF extracted.kind = "return"
                       THEN setReference(memory, type, extracted.value) ELSE memory
          /\ studio' =
               IF ~tasks[t].mounted THEN studio
               ELSE IF extracted.kind = "return"
               THEN [studio EXCEPT !.consistencySettings[type] = "consistent",
                                   !.memoryStatus = getMemories(memory'),
                                   !.loading = FALSE]
               ELSE [studio EXCEPT !.loading = FALSE]
          /\ done' = [op |-> "extract", type |-> type, settled |-> extracted,
                      response |-> response]
    /\ tasks' = [tasks EXCEPT ![t] = IdleTask]
    /\ inflight' = inflight \ {<<t, 1>>}
    /\ UNCHANGED <<otherMemory, messages, isProcessing, uploadedImages, faceReferences,
                   resizeTask, nextId>>

\* ------------------------------------------------------------------------
\* Chat: sending a turn (handleSendMessage around sendMessage)
\* ------------------------------------------------------------------------
NoTool == [name |-> "<none>"]

\* What the log keeps of a gateway response (of a function-calling response:
\* the call that is acted upon and the number of calls it carried).
Logged(response) ==
    IF response.kind = "ok" /\ "functionCalls" \in DOMAIN response
    THEN [kind |-> "ok", text |-> response.text,
          tool |-> IF Len(response.functionCalls) = 0 THEN NoTool ELSE response.functionCalls[1],
          count |-> Len(response.functionCalls)]
    ELSE response

\* The bot message handleSendMessage / handleRegenerate store for a response.
resultMessage(botMessageId, botResponse) ==
    IF botResponse.needsAspectRatio /\ Truthy(botResponse.pendingPrompt)
    THEN [ChatMessage(botMessageId, "bot", botResponse.text, <<>>)
          EXCEPT !.needsAspectRatio = TRUE, !.prompt = botResponse.pendingPrompt]
    ELSE [ChatMessage(botMessageId, "bot", botResponse.text,
                      IF HasImage(botResponse.image) THEN <<botResponse.image>> ELSE <<>>)
          EXCEPT !.sources = botResponse.sources, !.prompt = botResponse.prompt]

\* The message a handler's catch block stores.
errorMessage(msg, error) ==
    [msg EXCEPT !.text = <<"Error: ">> \o error.message, !.isLoading = FALSE, !.isError = TRUE]

handleSendMessage(currentInput) ==
    /\ ~(isProcessing \/ (currentInput = <<>> /\ Len(uploadedImages) = 0))
    /\ UserTurns < MaxTurns
    /\ HasFreeTask
    /\ LET userMessage == ChatMessage(nextId, "user", currentInput,
                              [i \in 1..Len(uploadedImages) |->
                                  DataUri(uploadedImages[i].mimeType, uploadedImages[i].data)])
           botMessageId == nextId + 1
           botLoadingMessage == [ChatMessage(botMessageId, "bot", <<>>, <<>>)
                                 EXCEPT !.isLoading = TRUE]
           imagesToSend == faceReferences \o uploadedImages
           history == historyForAPI(messages)
       IN /\ isProcessing' = TRUE
          /\ messages' = messages \o <<userMessage, botLoadingMessage>>
          /\ uploadedImages' = <<>>
          /\ nextId' = nextId + 2
          /\ tasks' = [tasks EXCEPT ![FreeTask] =
                [pc |-> "select", op |-> "send", msgId |-> botMessageId,
                 text |-> currentInput, images |-> imagesToSend, history |-> history,
                 resizeTask |-> resizeTask # NoResizeTask,
                 handler |-> "<none>", arg |-> Undefined,
                 calls |-> <<sendMessageRequest(currentInput, imagesToSend, history)>>,
                 responses |-> <<>>, clicked |-> botLoadingMessage]]
          /\ inflight' = inflight \cup {<<FreeTask, 1>>}
    /\ done' = NoDone
    /\ UNCHANGED <<otherMemory, studio, faceReferences, resizeTask, memory>>

\* The Regenerate button of a bot message: shown in the action bar of a
\* message without images that neither loads nor awaits a ratio; the handler
\* does not look at isProcessing.
handleRegenerate(messageId) ==
    /\ HasFreeTask
    /\ \E i \in 2..Len(messages) :
        /\ messages[i].id = messageId
        /\ messages[i].sender = "bot" /\ messages[i].id # 0
        /\ ~messages[i].isLoading /\ ~messages[i].needsAspectRatio
        /\ Len(messages[i].images) = 0
        /\ \E u \in 1..(i - 1) :
            /\ messages[u].sender = "user"
            /\ \A k \in (u + 1)..(i - 1) : messages[k].sender # "user"
            /\ LET userMessage == messages[u]
                   history == historyForAPI(SubSeq(messages, 1, u - 1))
                   textToSend == userMessage.text
                   imagesToSend ==
                       faceReferences \o
                       [k \in 1..Len(userMessage.images) |->
                           [data |-> userMessage.images[k].data,
                            mimeType |-> userMessage.images[k].mimeType]]
               IN tasks' = [tasks EXCEPT ![FreeTask] =
                    [pc |-> "select", op |-> "regenerate", msgId |-> messageId,
                     text |-> textToSend, images |-> imagesToSend, history |-> history,
                     resizeTask |-> FALSE,
                     handler |-> "<none>", arg |-> Undefined,
                     calls |-> <<sendMessageRequest(textToSend, imagesToSend, history)>>,
                     responses |-> <<>>, clicked |-> messages[i]]]
    /\ isProcessing' = TRUE
    /\ messages' = MapMessage(messages, messageId,
            LAMBDA msg : [msg EXCEPT !.isLoading = TRUE, !.text = <<>>, !.images = <<>>,
                                     !.sources = Undefined, !.prompt = Undefined,
                                     !.isError = FALSE, !.feedback = Undefined])
    /\ inflight' = inflight \cup {<<FreeTask, 1>>}
    /\ done' = NoDone
    /\ UNCHANGED <<otherMemory, studio, uploadedImages, faceReferences, resizeTask, memory,
                   nextId>>

\* A completion that always empties the face references.
faceReferencesAfter_Clear(settled, prev) == <<>>

\* if (botResponse.resetMemory) setFaceReferences([])
faceReferencesAfter(settled, prev) ==
    IF settled.kind = "return" /\ settled.value.resetMemory THEN <<>> ELSE prev

\* The rest of handleSendMessage, and of handleRegenerate (whose finally
\* block always clears isProcessing), once sendMessage has settled.
FinishSend(t, settled, responses) ==
    LET task == tasks[t]
        botResponse == settled.value
        deferred == settled.kind = "return"
                    /\ botResponse.needsAspectRatio /\ Truthy(botResponse.pendingPrompt)
    IN /\ messages' =
            IF settled.kind = "return"
            THEN MapMessage(messages, task.msgId,
                            LAMBDA msg : resultMessage(task.msgId, botResponse))
            ELSE MapMessage(messages, task.msgId,
                            LAMBDA msg : errorMessage(msg, settled.error))
       /\ faceReferences' = faceReferencesAfter(settled, faceReferences)
       /\ isProcessing' = IF deferred \/ ~task.resizeTask THEN FALSE ELSE isProcessing
       /\ tasks' = [tasks EXCEPT ![t] = IdleTask]
       /\ done' = [op |-> task.op, msgId |-> task.msgId, text |-> task.text,
                   images |-> task.images, history |-> task.history,
                   settled |-> settled, calls |-> task.calls, responses |-> responses,
                   clicked |-> task.clicked]
       /\ UNCHANGED <<otherMemory, studio, uploadedImages, resizeTask, memory, nextId>>

\* The function-calling completion returns: sendMessage dispatches.
SelectReturns(t, response) ==
    /\ tasks[t].pc = "select"
    /\ <<t, 1>> \in inflight
    /\ response \in SelectResponses
    /\ LET task == tasks[t]
           step == sendMessageDispatch(task.text, task.images, task.history, response)
           responses == Append(task.responses, Logged(response))
       IN IF step.kind = "call"
          THEN /\ tasks' = [tasks EXCEPT ![t] =
                     [task EXCEPT !.pc = "handler", !.handler = step.handler,
                                  !.arg = step.arg,
                                  !.calls = Append(task.calls, step.request),
                                  !.responses = responses]]
               /\ inflight' = (inflight \ {<<t, 1>>}) \cup {<<t, 2>>}
               /\ done' = NoDone
               /\ UNCHANGED <<otherMemory, studio, messages, isProcessing, uploadedImages, faceReferences,
                              resizeTask, memory, nextId>>
          ELSE /\ inflight' = inflight \ {<<t, 1>>}
               /\ FinishSend(t, step, responses)

\* The gateway call of the selected tool returns: sendMessage returns.
HandlerReturns(t, response) ==
    /\ tasks[t].pc = "handler"
    /\ <<t, 2>> \in inflight
    /\ response \in HandlerResponses(tasks[t].handler)
    /\ inflight' = inflight \ {<<t, 2>>}
    /\ FinishSend(t, sendMessageResume(tasks[t].handler, tasks[t].arg, response),
                  Append(tasks[t].responses, response))

\* ------------------------------------------------------------------------
\* Chat: resuming a deferred generation (handleAspectRatioSelected around
\* executePendingImageGeneration / executeGenerateImage)
\* ------------------------------------------------------------------------
\* handleAspectRatioSelected starting both backends at once.
handleAspectRatioSelected_Race(messageId, aspectRatio) ==
    /\ HasFreeTask
    /\ aspectRatio \in ASPECT_RATIOS
    /\ \E i \in 1..Len(messages) :
        /\ messages[i].id = messageId
        /\ messages[i].sender = "bot"
        /\ ~messages[i].isLoading
        /\ messages[i].needsAspectRatio /\ Truthy(messages[i].prompt)
        /\ LET prompt == messages[i].prompt
               fullPrompt == createAdvancedResizePrompt(cleanPromptForResize(prompt), aspectRatio)
           IN tasks' = [tasks EXCEPT ![FreeTask] =
                [pc |-> "primary", op |-> "resume", msgId |-> messageId,
                 prompt |-> prompt, aspectRatio |-> aspectRatio, fullPrompt |-> fullPrompt,
                 calls |-> <<executeGenerateImageRequest1(fullPrompt, aspectRatio),
                             executeGenerateImageRequest2(fullPrompt)>>,
                 responses |-> <<>>]]
    /\ isProcessing' = TRUE
    /\ messages' = MapMessage(messages, messageId,
            LAMBDA msg : [msg EXCEPT !.isLoading = TRUE, !.needsAspectRatio = FALSE,
                                     !.text = <<"Generating image with aspect ratio ">>
                                              \o aspectRatio \o <<"...">>])
    /\ inflight' = inflight \cup {<<FreeTask, 1>>, <<FreeTask, 2>>}
    /\ done' = NoDone
    /\ UNCHANGED <<otherMemory, studio, uploadedImages, faceReferences, resizeTask, memory, nextId>>

handleAspectRatioSelected(messageId, aspectRatio) ==
    /\ HasFreeTask
    /\ aspectRatio \in ASPECT_RATIOS
    /\ \E i \in 1..Len(messages) :
        /\ messages[i].id = messageId
        /\ messages[i].sender = "bot"
        /\ ~messages[i].isLoading
        /\ messages[i].needsAspectRatio /\ Truthy(messages[i].prompt)
        /\ LET prompt == messages[i].prompt
               fullPrompt == createAdvancedResizePrompt(cleanPromptForResize(prompt), aspectRatio)
           IN tasks' = [tasks EXCEPT ![FreeTask] =
                [pc |-> "primary", op |-> "resume", msgId |-> messageId,
                 prompt |-> prompt, aspectRatio |-> aspectRatio, fullPrompt |-> fullPrompt,
                 calls |-> <<executeGenerateImageRequest1(fullPrompt, aspectRatio)>>,
                 responses |-> <<>>]]
    /\ isProcessing' = TRUE
    /\ messages' = MapMessage(messages, messageId,
            LAMBDA msg : [msg EXCEPT !.isLoading = TRUE, !.needsAspectRatio = FALSE,
                                     !.text = <<"Generating image with aspect ratio ">>
                                              \o aspectRatio \o <<"...">>])
    /\ inflight' = inflight \cup {<<FreeTask, 1>>}
    /\ done' = NoDone
    /\ UNCHANGED <<otherMemory, studio, uploadedImages, faceReferences, resizeTask, memory, nextId>>

\* The rest of handleAspectRatioSelected once the generation has settled.
FinishResume(t, settled, responses) ==
    LET task == tasks[t]
        botResponse == settled.value
    IN /\ messages' =
            IF settled.kind = "return"
            THEN MapMessage(messages, task.msgId,
                    LAMBDA msg : [ChatMessage(task.msgId, "bot", botResponse.text,
                                     IF HasImage(botResponse.image)
                                     THEN <<botResponse.image>> ELSE <<>>)
                                  EXCEPT !.prompt = botResponse.prompt])
            ELSE MapMessage(messages, task.msgId,
                    LAMBDA msg : [errorMessage(msg, settled.error)
                                  EXCEPT !.needsAspectRatio = FALSE])
       /\ isProcessing' = FALSE
       /\ tasks' = [tasks EXCEPT ![t] = IdleTask]
       /\ done' = [op |-> "resume", msgId |-> task.msgId, prompt |-> task.prompt,
                   aspectRatio |-> task.aspectRatio, fullPrompt |-> task.fullPrompt,
                   settled |-> settled, calls |-> task.calls, responses |-> responses]
       /\ UNCHANGED <<otherMemory, studio, uploadedImages, faceReferences, resizeTask, memory, nextId>>

\* The primary backend returns, and a primary call that threw is issued again.
PrimaryReturns_Retry(t, response) ==
    /\ tasks[t].pc = "primary"
    /\ <<t, 1>> \in inflight
    /\ response \in ImagesResponses
    /\ LET task == tasks[t]
           step == executeGenerateImageAttempt1(response)
           responses == Append(task.responses, response)
       IN IF step.kind = "fallback"
          THEN /\ tasks' = [tasks EXCEPT ![t] =
                     [task EXCEPT !.pc = IF response.kind = "throw" THEN "primary"
                                         ELSE "secondary",
                                  !.calls = Append(task.calls,
                                        IF response.kind = "throw"
                                        THEN executeGenerateImageRequest1(task.fullPrompt,
                                                                          task.aspectRatio)
                                        ELSE executeGenerateImageRequest2(task.fullPrompt)),
                                  !.responses = responses]]
               /\ inflight' = (inflight \ {<<t, 1>>})
                              \cup {IF response.kind = "throw" THEN <<t, 1>> ELSE <<t, 2>>}
               /\ done' = NoDone
               /\ UNCHANGED <<otherMemory, studio, messages, isProcessing, uploadedImages, faceReferences,
                              resizeTask, memory, nextId>>
          ELSE /\ inflight' = inflight \ {<<t, 1>>}
               /\ FinishResume(t, executePendingImageGeneration(step, task.prompt), responses)

\* The primary backend returns.
PrimaryReturns(t, response) ==
    /\ tasks[t].pc = "primary"
    /\ <<t, 1>> \in inflight
    /\ response \in ImagesResponses
    /\ LET task == tasks[t]
           step == executeGenerateImageAttempt1(response)
           responses == Append(task.responses, response)
       IN IF step.kind = "fallback"
          THEN /\ tasks' = [tasks EXCEPT ![t] =
                     [task EXCEPT !.pc = "secondary",
                                  !.calls = Append(task.calls,
                                        executeGenerateImageRequest2(task.fullPrompt)),
                                  !.responses = responses]]
               /\ inflight' = (inflight \ {<<t, 1>>}) \cup {<<t, 2>>}
               /\ done' = NoDone
               /\ UNCHANGED <<otherMemory, studio, messages, isProcessing, uploadedImages, faceReferences,
                              resizeTask, memory, nextId>>
          ELSE /\ inflight' = inflight \ {<<t, 1>>}
               /\ FinishResume(t, executePendingImageGeneration(step, task.prompt), responses)

\* The secondary backend returns.
SecondaryReturns(t, response) ==
    /\ tasks[t].pc = "secondary"
    /\ <<t, 2>> \in inflight
    /\ response \in ContentResponses(SecondaryBlob)
    /\ inflight' = inflight \ {<<t, 2>>}
    /\ FinishResume(t, executePendingImageGeneration(executeGenerateImageAttempt2(response),
                                                     tasks[t].prompt),
                    Append(tasks[t].responses, response))

\* ------------------------------------------------------------------------
\* Chat: the resize dialog
\* ------------------------------------------------------------------------
handleResizeClick(messageId) ==
    /\ \E i \in 1..Len(messages) :
        /\ messages[i].id = messageId
        /\ messages[i].sender = "bot" /\ messages[i].id # 0
        /\ ~messages[i].isLoading /\ ~messages[i].needsAspectRatio
        /\ Len(messages[i].images) > 0
        /\ resizeTask' = messages[i]
    /\ done' = NoDone
    /\ UNCHANGED <<otherMemory, studio, messages, isProcessing, uploadedImages, faceReferences, memory, nextId,
                   tasks, inflight>>

\* The resizes started so far (each appends one bot message).
Resizes == nextId - 1 - 2 * UserTurns

\* handleExecuteResize: the ratio chosen in the resize dialog.
handleExecuteResize(aspectRatio) ==
    /\ resizeTask # NoResizeTask
    /\ Len(resizeTask.images) > 0
    /\ Resizes < MaxResizes
    /\ HasFreeTask
    /\ LET originalPrompt == resizeTask.prompt
           originalImageSrc == resizeTask.images[1]
           imageToResize == [data |-> originalImageSrc.data,
                             mimeType |-> originalImageSrc.mimeType]
           botMessageId == nextId
           botLoadingMessage == [ChatMessage(botMessageId, "bot", <<>>, <<>>)
                                 EXCEPT !.isLoading = TRUE]
       IN /\ messages' = Append(messages, botLoadingMessage)
          /\ tasks' = [tasks EXCEPT ![FreeTask] =
                [pc |-> "resize", op |-> "resize", msgId |-> botMessageId,
                 prompt |-> originalPrompt, aspectRatio |-> aspectRatio,
                 calls |-> <<resizeImageRequest(imageToResize, aspectRatio, Undefined)>>]]
    /\ isProcessing' = TRUE
    /\ resizeTask' = NoResizeTask
    /\ nextId' = nextId + 1
    /\ inflight' = inflight \cup {<<FreeTask, 1>>}
    /\ done' = NoDone
    /\ UNCHANGED <<otherMemory, studio, uploadedImages, faceReferences, memory>>

\* The gateway call of resizeImage returns: the rest of handleExecuteResize.
ResizeReturns(t, response) ==
    /\ tasks[t].pc = "resize"
    /\ <<t, 1>> \in inflight
    /\ response \in ContentResponses(ReferenceBlob)
    /\ LET task == tasks[t]
           res == resizeImage(task.aspectRatio, response)
       IN /\ messages' =
               IF res.kind = "return"
               THEN MapMessage(messages, task.msgId,
                       LAMBDA msg : [ChatMessage(task.msgId, "bot", res.value.text,
                                                 <<res.value.image>>)
                                     EXCEPT !.prompt = OrElse(task.prompt, <<"resized">>)])
               ELSE MapMessage(messages, task.msgId,
                       LAMBDA msg : errorMessage(msg, res.error))
          /\ done' = [op |-> "resize", msgId |-> task.msgId, settled |-> res,
                      calls |-> task.calls, responses |-> <<response>>]
    /\ isProcessing' = FALSE
    /\ tasks' = [tasks EXCEPT ![t] = IdleTask]
    /\ inflight' = inflight \ {<<t, 1>>}
    /\ UNCHANGED <<otherMemory, studio, uploadedImages, faceReferences, resizeTask, memory,
                   nextId>>

\* The Like / Dislike buttons of a bot message (shown with Regenerate).
handleLikeDislike(messageId, feedback) ==
    /\ feedback \in {<<"liked">>, <<"disliked">>}
    /\ \E i \in 1..Len(messages) :
        /\ messages[i].id = messageId
        /\ messages[i].sender = "bot" /\ messages[i].id # 0
        /\ ~messages[i].isLoading /\ ~messages[i].needsAspectRatio
        /\ Len(messages[i].images) = 0
    /\ messages' = MapMessage(messages, messageId,
            LAMBDA msg : [msg EXCEPT !.feedback = IF msg.feedback = feedback
                                                 THEN Undefined ELSE feedback])
    /\ done' = NoDone
    /\ UNCHANGED <<otherMemory, studio, isProcessing, uploadedImages, faceReferences,
                   resizeTask, memory, nextId, tasks, inflight>>

\* Modal onCancel.
cancelResize ==
    /\ resizeTask # NoResizeTask
    /\ resizeTask' = NoResizeTask
    /\ done' = NoDone
    /\ UNCHANGED <<otherMemory, studio, messages, isProcessing, uploadedImages, faceReferences, memory, nextId,
                   tasks, inflight>>

\* ------------------------------------------------------------------------
\* Specification
\* ------------------------------------------------------------------------
Next ==
    \/ \E b \in UserBlobs \cup FaceBlobs, f \in BOOLEAN : handleFileChange(b, f)
    \/ \E i \in 1..MaxImages : removeUploadedImage(i)
    \/ \E i \in 1..MaxImages : removeFaceReference(i)
    \/ \E txt \in UserTexts : handleSendMessage(txt)
    \/ \E t \in TaskIds, r \in SelectResponses : SelectReturns(t, r)
    \/ \E t \in TaskIds, r \in TextResponses \cup ContentResponses(ReferenceBlob) :
            HandlerReturns(t, r)
    \/ \E id \in 1..(2 * MaxTurns + 1), r \in ASPECT_RATIOS : handleAspectRatioSelected(id, r)
    \/ \E t \in TaskIds, r \in ImagesResponses : PrimaryReturns(t, r)
    \/ \E t \in TaskIds, r \in ContentResponses(SecondaryBlob) : SecondaryReturns(t, r)
    \/ \E id \in 1..(2 * MaxTurns + 1) : handleResizeClick(id)
    \/ cancelResize
    \/ \E slot \in Slots, b \in StudioBlobs : handleReferenceUpload(slot, b)

Spec == Init /\ [][Next]_vars

\* ------------------------------------------------------------------------
\* A turn sent into a conversation that already has a past
\* ------------------------------------------------------------------------
HistoryBlob == Blob("B")                 \* a second image of an earlier turn

\* The user message and the bot message that handleSendMessage left behind
\* for an earlier turn.
PastUser(id, text, blobs) ==
    ChatMessage(id, "user", text,
                [i \in 1..Len(blobs) |-> DataUri(blobs[i].mimeType, blobs[i].data)])

PastBot(id, botResponse) == resultMessage(id, botResponse)

PastImageResult ==
    ImageResult(DataUri(ReferenceBlob.mimeType, ReferenceBlob.data),
                <<"Here is your edited image.">>, <<"lion">>)

\* Earlier parts of a conversation: none; text only; an uploaded image; two
\* uploaded images in one message; an uploaded and then a generated image;
\* the same followed by a text-only exchange.
PriorConversations ==
    { <<>>,
      <<PastUser(-2, <<"hello">>, <<>>), PastBot(-1, TextResult(<<"reply">>))>>,
      <<PastUser(-2, <<"hello">>, <<Blob("A")>>), PastBot(-1, TextResult(<<"reply">>))>>,
      <<PastUser(-2, <<>>, <<Blob("A"), HistoryBlob>>), PastBot(-1, TextResult(<<"reply">>))>>,
      <<PastUser(-2, <<"hello">>, <<Blob("A")>>), PastBot(-1, PastImageResult)>>,
      <<PastUser(-4, <<"hello">>, <<Blob("A")>>), PastBot(-3, PastImageResult),
        PastUser(-2, <<"hello">>, <<>>), PastBot(-1, TextResult(<<"reply">>))>> }

InitHistory ==
    /\ messages \in {<<InitMessage>> \o conv : conv \in PriorConversations}
    /\ isProcessing = FALSE
    /\ uploadedImages = <<>>
    /\ faceReferences = <<>>
    /\ resizeTask = NoResizeTask
    /\ memory = [s \in Slots |-> Null]
    /\ nextId = 1
    /\ tasks = [t \in TaskIds |-> IdleTask]
    /\ inflight = {}
    /\ done = NoDone
    /\ studio = MountStudio([s \in Slots |-> Null])
    /\ otherMemory = [s \in Slots |-> Null]

NextHistory ==
    \/ \E b \in UserBlobs \cup FaceBlobs, f \in BOOLEAN : handleFileChange(b, f)
    \/ \E txt \in UserTexts : handleSendMessage(txt)
    \/ \E t \in TaskIds, r \in SelectResponses : SelectReturns(t, r)
    \/ \E t \in TaskIds, r \in TextResponses \cup ContentResponses(ReferenceBlob) :
            HandlerReturns(t, r)

SpecHistory == InitHistory /\ [][NextHistory]_vars

\* ------------------------------------------------------------------------
\* A conversation that holds a generation awaiting its ratio
\* ------------------------------------------------------------------------
PendingPrompt == <<"lion">>

\* Function-calling responses of the turns of such a conversation: a text
\* reply, or a generateImage call (which defers the generation).
PendingSelectResponses ==
    {[kind |-> "ok", functionCalls |-> fc, text |-> <<"reply">>] :
        fc \in {<<>>, <<ToolCall("generateImage", <<"lion", "landscape">>,
                                 Undefined, Undefined)>>}}

\* The bot message handleSendMessage leaves for a generateImage call.
PastPending(id) ==
    resultMessage(id, [TextResult(<<"Please select an aspect ratio for your image.">>)
                       EXCEPT !.needsAspectRatio = TRUE, !.pendingPrompt = PendingPrompt])

\* A pending generation followed by: nothing; a text exchange; an exchange
\* that produced an image.
PendingConversations ==
    { <<PastUser(-2, <<"hello">>, <<>>), PastPending(-1)>>,
      <<PastUser(-4, <<"hello">>, <<>>), PastPending(-3),
        PastUser(-2, <<"hello">>, <<>>), PastBot(-1, TextResult(<<"reply">>))>>,
      <<PastUser(-4, <<"hello">>, <<>>), PastPending(-3),
        PastUser(-2, <<"hello">>, <<Blob("A")>>), PastBot(-1, PastImageResult)>> }

\* Responses of the image backends in such a conversation: an image, or none.
PendingImagesResponses == {[kind |-> "ok", imageBytes |-> b] : b \in {"", PrimaryBytes}}
PendingContentResponses(blob) ==
    {[kind |-> "ok", inlineData |-> i, text |-> <<>>] : i \in {NoImage, blob}}

InitPending ==
    /\ messages \in {<<InitMessage>> \o conv : conv \in PendingConversations}
    /\ isProcessing = FALSE
    /\ uploadedImages = <<>>
    /\ faceReferences = <<>>
    /\ resizeTask = NoResizeTask
    /\ memory = [s \in Slots |-> Null]
    /\ nextId = 1
    /\ tasks = [t \in TaskIds |-> IdleTask]
    /\ inflight = {}
    /\ done = NoDone
    /\ studio = MountStudio([s \in Slots |-> Null])
    /\ otherMemory = [s \in Slots |-> Null]

MessageIds == (-4)..(2 * MaxTurns + MaxResizes)
PastIds == (-4)..(-1)                    \* messages whose buttons are used

NextPending ==
    \/ \E txt \in UserTexts : handleSendMessage(txt)
    \/ \E id \in PastIds : handleRegenerate(id)
    \/ \E t \in TaskIds, r \in PendingSelectResponses : SelectReturns(t, r)
    \/ \E id \in MessageIds, r \in ASPECT_RATIOS : handleAspectRatioSelected(id, r)
    \/ \E t \in TaskIds, r \in PendingImagesResponses : PrimaryReturns(t, r)
    \/ \E t \in TaskIds, r \in PendingContentResponses(SecondaryBlob) : SecondaryReturns(t, r)
    \/ \E id \in PastIds : handleResizeClick(id)
    \/ \E r \in ASPECT_RATIOS : handleExecuteResize(r)
    \/ \E t \in TaskIds, r \in PendingContentResponses(ReferenceBlob) : ResizeReturns(t, r)

SpecPending == InitPending /\ [][NextPending]_vars

\* The same conversations with the feedback buttons in use.
NextTurns ==
    \/ NextPending
    \/ \E id \in {-1} : handleLikeDislike(id, <<"liked">>)

SpecTurns == InitPending /\ [][NextTurns]_vars

\* The same conversations with the resize dialog opened, cancelled or
\* executed around a send turn.
NextDialog ==
    \/ \E txt \in UserTexts : handleSendMessage(txt)
    \/ \E t \in TaskIds, r \in PendingSelectResponses : SelectReturns(t, r)
    \/ \E id \in MessageIds : handleResizeClick(id)
    \/ cancelResize
    \/ \E r \in ASPECT_RATIOS : handleExecuteResize(r)
    \/ \E t \in TaskIds, r \in PendingContentResponses(ReferenceBlob) : ResizeReturns(t, r)

SpecDialog == InitPending /\ [][NextDialog]_vars

\* ------------------------------------------------------------------------
\* Face references and uploads across the turns of a chat
\* ------------------------------------------------------------------------
\* Function-calling responses of such turns: a text reply, a
\* resetFaceMemory call, or a failure.
FaceSelectResponses ==
    {[kind |-> "ok", functionCalls |-> fc, text |-> <<"reply">>] :
        fc \in {<<>>, <<ToolCall("resetFaceMemory", Undefined, Undefined, Undefined)>>}}
    \cup Thrown

NextFaces ==
    \/ \E b \in UserBlobs \cup FaceBlobs, f \in BOOLEAN : handleFileChange(b, f)
    \/ \E i \in 1..MaxImages : removeUploadedImage(i)
    \/ \E i \in 1..MaxImages : removeFaceReference(i)
    \/ \E txt \in UserTexts : handleSendMessage(txt)
    \/ \E id \in 1..(2 * MaxTurns) : handleRegenerate(id)
    \/ \E t \in TaskIds, r \in FaceSelectResponses : SelectReturns(t, r)

SpecFaces == Init /\ [][NextFaces]_vars

\* ------------------------------------------------------------------------
\* The prompt builder applied to raw prompts
\* ------------------------------------------------------------------------
PromptWords == {"lion", "woman", "desert", "landscape", "Landscape", "landscapes",
                "9:16", "anime"}
LionInTheDesert == <<"a", "lion", "in", "the", "desert", ",", "landscape">>
RawPrompts == SeqsUpTo(PromptWords, MaxWords) \cup {LionInTheDesert}
TargetRatios == {<<"1:1">>, <<"9:16">>, <<"16:9">>, <<"2:3">>}

InitPrompt ==
    /\ messages = <<InitMessage>>
    /\ isProcessing = FALSE
    /\ uploadedImages = <<>>
    /\ faceReferences = <<>>
    /\ resizeTask = NoResizeTask
    /\ memory = [s \in Slots |-> Null]
    /\ nextId = 1
    /\ tasks = [t \in TaskIds |-> IdleTask]
    /\ inflight = {}
    /\ done \in {[op |-> "prompt", prompt |-> p, aspectRatio |-> r] :
                    p \in RawPrompts, r \in TargetRatios}
    /\ studio = MountStudio([s \in Slots |-> Null])
    /\ otherMemory = [s \in Slots |-> Null]

\* executeGenerateImage up to its first gateway call.
buildGenerationPrompt ==
    /\ done.op = "prompt"
    /\ LET cleanedPrompt == cleanPromptForResize(done.prompt)
           fullPrompt == createAdvancedResizePrompt(cleanedPrompt, done.aspectRatio)
       IN done' = [op |-> "fullPrompt", prompt |-> done.prompt,
                   aspectRatio |-> done.aspectRatio,
                   cleanedPrompt |-> cleanedPrompt, fullPrompt |-> fullPrompt,
                   request |-> executeGenerateImageRequest1(fullPrompt, done.aspectRatio)]
    /\ UNCHANGED <<otherMemory, studio, messages, isProcessing, uploadedImages, faceReferences,
                   resizeTask, memory, nextId, tasks, inflight>>

NextPrompt == buildGenerationPrompt

SpecPrompt == InitPrompt /\ [][NextPrompt]_vars

\* ------------------------------------------------------------------------
\* The CompleteConsistencyAI object used through its methods
\* ------------------------------------------------------------------------
MemoryValues == {"M", "N"}               \* base64 strings handed to the setters

\* One call of a method of the object, followed by getMemories().
MemoryCall(op, element, base64, after) ==
    /\ memory' = after
    /\ done' = [op |-> op, element |-> element, base64 |-> base64,
                before |-> getMemories(memory), memories |-> getMemories(after)]
    /\ UNCHANGED <<otherMemory, studio, messages, isProcessing, uploadedImages, faceReferences, resizeTask,
                   nextId, tasks, inflight>>

\* setFaceReference / setDressReference / setBackgroundReference /
\* setEnvironmentReference
CallSetReference(slot, base64) ==
    MemoryCall("set", slot, base64, setReference(memory, slot, base64))

CallClearMemory(element) ==
    MemoryCall("clear", element, Null, clearMemory(memory, element))

CallClearAllMemories ==
    MemoryCall("clearAll", Null, Null, clearAllMemories(memory))

NextMemory ==
    \/ \E slot \in Slots, base64 \in MemoryValues : CallSetReference(slot, base64)
    \/ \E element \in Slots : CallClearMemory(element)
    \/ CallClearAllMemories

SpecMemory == Init /\ [][NextMemory]_vars

\* ------------------------------------------------------------------------
\* Two CompleteConsistencyAI objects, each created by `new`
\* ------------------------------------------------------------------------
Objects == {"app", "other"}
AllConsistent == [s \in Slots |-> "consistent"]

\* Fields shared by every object of the class.
FieldsOf_Static(self) == "app"

\* The object whose fields `this.faceMemory`, ... of a method call on `self`
\* are: the fields are instance fields.
FieldsOf(self) == self

MemoryOf(self) == IF FieldsOf(self) = "app" THEN memory ELSE otherMemory

\* One method call on the object `self`.
ObjectCall(self, op, element, after, request) ==
    /\ memory' = IF FieldsOf(self) = "app" THEN after ELSE memory
    /\ otherMemory' = IF FieldsOf(self) = "app" THEN otherMemory ELSE after
    /\ done' = [op |-> op, self |-> self, element |-> element, request |-> request]
    /\ UNCHANGED <<studio, messages, isProcessing, uploadedImages, faceReferences, resizeTask,
                   nextId, tasks, inflight>>

ObjectSetReference(self, slot, base64) ==
    ObjectCall(self, "set", slot, setReference(MemoryOf(self), slot, base64), Null)

ObjectClearMemory(self, element) ==
    ObjectCall(self, "clear", element, clearMemory(MemoryOf(self), element), Null)

ObjectClearAllMemories(self) ==
    ObjectCall(self, "clearAll", Null, clearAllMemories(MemoryOf(self)), Null)

\* generateWithControl up to its gateway call.
ObjectGenerateWithControl(self, userPrompt, aspectRatio) ==
    ObjectCall(self, "generateWithControl", Null, MemoryOf(self),
               generateWithControlRequest(MemoryOf(self), userPrompt, AllConsistent,
                                          aspectRatio))

\* extractElement up to its gateway call.
ObjectExtractElement(self, imageBase64, elementType) ==
    ObjectCall(self, "extractElement", elementType, MemoryOf(self),
               extractElementRequest(imageBase64, elementType))

NextObjects ==
    \/ \E self \in Objects, slot \in StudioTypes, base64 \in MemoryValues :
            ObjectSetReference(self, slot, base64)
    \/ \E self \in Objects, element \in StudioTypes : ObjectClearMemory(self, element)
    \/ \E self \in Objects : ObjectClearAllMemories(self)
    \/ \E self \in Objects, prompt \in StudioPrompts, r \in ASPECT_RATIOS :
            ObjectGenerateWithControl(self, prompt, r)
    \/ \E self \in Objects, type \in StudioTypes :
            ObjectExtractElement(self, GeneratedBlob.data, type)

SpecObjects == Init /\ [][NextObjects]_vars

\* ------------------------------------------------------------------------
\* The studio
\* ------------------------------------------------------------------------
NextStudio ==
    \/ \E slot \in StudioTypes, b \in StudioBlobs : handleReferenceUpload(slot, b)
    \/ \E key \in StudioTypes, value \in {"consistent", "change"} :
            setConsistencySettings(key, value)
    \/ \E prompt \in StudioPrompts, r \in ASPECT_RATIOS : handleGenerate(prompt, r)
    \/ \E t \in TaskIds, r \in ContentResponses(GeneratedBlob) : GenerateReturns(t, r)
    \/ \E type \in StudioTypes : handleExtract(type)
    \/ \E t \in TaskIds, r \in ContentResponses(ExtractedBlob) : ExtractReturns(t, r)
    \/ remountStudio

SpecStudio == Init /\ [][NextStudio]_vars

\* ------------------------------------------------------------------------
\* One session: the studio's memory operations next to the turns of the chat
\* ------------------------------------------------------------------------
NextSession ==
    \/ \E slot \in StudioTypes, b \in StudioBlobs : handleReferenceUpload(slot, b)
    \/ \E prompt \in StudioPrompts, r \in ASPECT_RATIOS : handleGenerate(prompt, r)
    \/ \E t \in TaskIds, r \in ContentResponses(GeneratedBlob) : GenerateReturns(t, r)
    \/ \E type \in StudioTypes : handleExtract(type)
    \/ \E t \in TaskIds, r \in ContentResponses(ExtractedBlob) : ExtractReturns(t, r)
    \/ \E txt \in UserTexts : handleSendMessage(txt)
    \/ \E t \in TaskIds, r \in SelectResponses : SelectReturns(t, r)
    \/ \E t \in TaskIds, r \in TextResponses \cup ContentResponses(ReferenceBlob) :
            HandlerReturns(t, r)

SpecSession == Init /\ [][NextSession]_vars

\* ------------------------------------------------------------------------
\* Observations used by the properties
\* ------------------------------------------------------------------------
DoneSend == done.op = "send"
DoneResume == done.op = "resume"

\* The tool call the completed dispatch acted upon (NoTool when there was none).
DoneTool ==
    IF DoneSend /\ done.responses[1].kind = "ok" THEN done.responses[1].tool ELSE NoTool

DoneResult == done.settled.value

\* A gateway response that carries image bytes.
YieldsImage(response) ==
    /\ response.kind = "ok"
    /\ \/ "imageBytes" \in DOMAIN response /\ response.imageBytes # ""
       \/ "inlineData" \in DOMAIN response /\ response.inlineData # NoImage

IsImageCall(request) == request.model \in {"imagen-4.0-generate-001", "gemini-2.5-flash-image"}

\* ------------------------------------------------------------------------
\* Properties of the dispatcher
\* ------------------------------------------------------------------------
\* C1 (as claimed): every dispatch whose first tool call is generateImage and
\* whose turn carries no image returns needsAspectRatio=true and a non-empty
\* pendingPrompt equal to the tool's prompt argument, carries no image, and
\* makes no image-generation backend call.
C1_DeferredWithNonEmptyPrompt ==
    (DoneTool.name = "generateImage" /\ Len(done.images) = 0) =>
        /\ done.settled.kind = "return"
        /\ DoneResult.needsAspectRatio
        /\ Truthy(DoneResult.pendingPrompt)
        /\ DoneResult.pendingPrompt = DoneTool.args.prompt
        /\ DoneResult.image = ImgAbsent
        /\ \A k \in 1..Len(done.calls) : k = 1 \/ ~IsImageCall(done.calls[k])

\* C2 (as claimed): every dispatch whose first tool call is generateImage and
\* whose turn carries images goes to reference-based generation with all of
\* them and returns a direct image result without needsAspectRatio.
C2_RerouteAlwaysYieldsImage ==
    (DoneTool.name = "generateImage" /\ Len(done.images) > 0) =>
        /\ Len(done.calls) = 2
        /\ done.calls[2] = generateFromReferenceRequest(DoneTool.args.prompt, done.images)
        /\ HasImage(DoneResult.image)
        /\ ~DoneResult.needsAspectRatio

\* C2 (amended): such a dispatch makes exactly one further gateway call, the
\* reference-based generation with all attached images in order and the
\* tool's prompt; its result never has needsAspectRatio or a pendingPrompt,
\* and carries the returned image whenever that call returned one.
C2_RerouteToReference ==
    (DoneTool.name = "generateImage" /\ Len(done.images) > 0) =>
        /\ Len(done.calls) = 2
        /\ done.calls[2] = generateFromReferenceRequest(DoneTool.args.prompt, done.images)
        /\ done.settled.kind = "return"
        /\ ~DoneResult.needsAspectRatio
        /\ DoneResult.pendingPrompt = Undefined
        /\ YieldsImage(done.responses[2]) =>
              DoneResult.image = DataUri(done.responses[2].inlineData.mimeType,
                                         done.responses[2].inlineData.data)

C2_Witness ==
    /\ DoneTool.name = "generateImage"
    /\ Len(done.images) = 2
    /\ YieldsImage(done.responses[2])

\* C3: no result of a dispatch has both a pending generation and an image.
C3_PendingExcludesImage ==
    DoneSend =>
        /\ done.settled.kind = "return"
        /\ (DoneResult.needsAspectRatio \/ DoneResult.pendingPrompt # Undefined) =>
              DoneResult.image = ImgAbsent
        /\ DoneResult.image # ImgAbsent =>
              (~DoneResult.needsAspectRatio /\ DoneResult.pendingPrompt = Undefined)

C3_Witness ==
    /\ DoneSend
    /\ DoneTool.name = "generateImage"
    /\ DoneResult.needsAspectRatio /\ Truthy(DoneResult.pendingPrompt)

\* ------------------------------------------------------------------------
\* Properties of the image generation pipeline
\* ------------------------------------------------------------------------
QuotaMessage == <<"Image generation quota exceeded. Please try again later.">>
GenericMessages == {<<"Failed to generate image. Please try again.">>,
                    <<"No image was generated.">>}

\* Both attempts of the completed pipeline run failed.
BothFailed ==
    /\ DoneResume
    /\ Len(done.responses) = 2
    /\ ~YieldsImage(done.responses[1]) /\ ~YieldsImage(done.responses[2])

\* The failure of attempt k of the completed run was classified quota-related.
QuotaRelated(k) == done.responses[k].kind = "throw" /\ isQuotaError(done.responses[k].error)

\* C4: when the primary call throws and the secondary yields an image, the
\* pipeline returns the secondary's image and raises nothing.
C4_SecondaryImageReturned ==
    (DoneResume /\ done.responses[1].kind = "throw"
       /\ Len(done.responses) = 2 /\ YieldsImage(done.responses[2])) =>
        /\ done.settled.kind = "return"
        /\ DoneResult.image = DataUri(done.responses[2].inlineData.mimeType,
                                      done.responses[2].inlineData.data)

C4_Witness ==
    /\ DoneResume
    /\ done.responses[1].kind = "throw" /\ ~isQuotaError(done.responses[1].error)
    /\ Len(done.responses) = 2 /\ YieldsImage(done.responses[2])
    /\ done.settled.kind = "return"

\* C5 (as claimed): when both attempts fail the pipeline raises QuotaExceeded if
\* either failure was quota-related and a generic failure only when neither was.
C5_QuotaIfEitherFailure ==
    BothFailed =>
        /\ done.settled.kind = "throw"
        /\ (QuotaRelated(1) \/ QuotaRelated(2)) => done.settled.error.message = QuotaMessage
        /\ ~(QuotaRelated(1) \/ QuotaRelated(2)) =>
              done.settled.error.message \in GenericMessages

\* A text shown to the user names a quota condition / is a generic failure.
IndicatesQuota(text) == \E i \in 1..Len(text) : <<text[i]>> = QuotaMessage
IndicatesGeneric(text) == \E i \in 1..Len(text) : <<text[i]>> \in GenericMessages

MessageOf(id) == messages[CHOOSE i \in 1..Len(messages) : messages[i].id = id]

\* C6: when both image backends fail with quota signals the text produced
\* for the turn names the quota condition, not a generic failure.
C6_QuotaTextWhenBothQuota ==
    (BothFailed /\ done.responses[1].kind = "throw" /\ QuotaSignal(done.responses[1].error)
                /\ done.responses[2].kind = "throw" /\ QuotaSignal(done.responses[2].error)) =>
        /\ done.settled.kind = "throw"
        /\ IndicatesQuota(done.settled.error.message)
        /\ IndicatesQuota(MessageOf(done.msgId).text)
        /\ ~IndicatesGeneric(MessageOf(done.msgId).text)

C6_Witness ==
    /\ BothFailed
    /\ done.responses[1].kind = "throw" /\ QuotaSignal(done.responses[1].error)
    /\ done.responses[2].kind = "throw" /\ QuotaSignal(done.responses[2].error)
    /\ MessageOf(done.msgId).isError

\* C7: the secondary backend is never called after the primary yielded image
\* bytes, and the pipeline returns with the first response that yields them.
C7_NoSecondaryAfterPrimaryImage ==
    /\ \A t \in TaskIds :
          tasks[t].pc = "secondary" =>
              /\ Len(tasks[t].responses) = 1
              /\ ~YieldsImage(tasks[t].responses[1])
    /\ DoneResume =>
          /\ Len(done.calls) = Len(done.responses)
          /\ \A k \in 1..Len(done.responses) :
                YieldsImage(done.responses[k]) =>
                    k = Len(done.responses) /\ done.settled.kind = "return"

C7_Witness ==
    /\ DoneResume
    /\ YieldsImage(done.responses[1])
    /\ Len(done.calls) = 1

\* C8: on any primary failure (thrown error or no image payload) exactly one
\* secondary attempt is made, with the prompt string built for the primary.
C8_OneFallbackSamePrompt ==
    /\ \A t \in TaskIds :
          tasks[t].pc = "secondary" =>
              /\ Len(tasks[t].calls) = 2
              /\ tasks[t].calls[2].prompt.fullPrompt = tasks[t].calls[1].prompt.fullPrompt
    /\ (DoneResume /\ ~YieldsImage(done.responses[1])) =>
          /\ Len(done.calls) = 2
          /\ done.calls[2].model = "gemini-2.5-flash-image"
          /\ done.calls[1].prompt.fullPrompt =
                createAdvancedResizePrompt(cleanPromptForResize(done.prompt), done.aspectRatio)
          /\ done.calls[2].prompt.fullPrompt = done.calls[1].prompt.fullPrompt

C8_Witness ==
    /\ DoneResume
    /\ done.responses[1].kind = "ok" /\ ~YieldsImage(done.responses[1])
    /\ Len(done.calls) = 2

\* C9: within one turn at most one gateway call is in flight: the handler's
\* call starts after the tool selection has returned, the secondary image
\* call after the primary has returned without an image.
C9_OneCallInFlightPerTurn ==
    \A t \in TaskIds :
        /\ Cardinality({c \in inflight : c[1] = t}) <= 1
        /\ tasks[t] = IdleTask => ~\E c \in inflight : c[1] = t
        /\ <<t, 2>> \in inflight =>
              /\ Len(tasks[t].responses) = 1
              /\ tasks[t].op = "resume" => ~YieldsImage(tasks[t].responses[1])

C9_Witness ==
    \E t \in TaskIds : tasks[t].pc \in {"secondary", "handler"} /\ <<t, 2>> \in inflight

ImagePositions(history) ==
    {<<i, j>> \in (1..Len(history)) \X (1..4) :
        j <= Len(history[i].parts) /\ IsImagePart(history[i].parts[j])}

\* The image part met first when the history is scanned backward: latest
\* entry first, and within an entry the last part first.
MostRecentImage(history) ==
    LET p == CHOOSE p \in ImagePositions(history) :
                \A q \in ImagePositions(history) :
                    q[1] < p[1] \/ (q[1] = p[1] /\ q[2] <= p[2])
        part == history[p[1]].parts[p[2]]
    IN [data |-> part.data, mimeType |-> part.mimeType]

NoImageAnywhere == Len(done.images) = 0 /\ ImagePositions(done.history) = {}

UploadRequest ==
    <<"I'm sorry, I couldn't find an image to work with. Please upload one first.">>

\* C11: a resizeImage dispatch with no image in the turn and none in any
\* history entry returns the request to upload an image and makes no gateway
\* call besides the tool selection.
C11_ResizeWithoutImage ==
    (DoneTool.name = "resizeImage" /\ NoImageAnywhere) =>
        /\ done.settled.kind = "return"
        /\ DoneResult.text = UploadRequest
        /\ DoneResult.image = ImgAbsent
        /\ Len(done.calls) = 1

C11_Witness ==
    /\ DoneTool.name = "resizeImage"
    /\ NoImageAnywhere
    /\ Len(done.history) > 0

\* C12: for editImage and resizeImage the image sent to the backend is the
\* last image of the turn when the turn has one (whatever the history holds),
\* otherwise the most recent image part of the history scanned backward; the
\* upload request is returned, and no call made, exactly when there is no
\* image in either place.
C12_TargetImage ==
    DoneTool.name \in {"editImage", "resizeImage"} =>
        /\ NoImageAnywhere <=> Len(done.calls) = 1
        /\ NoImageAnywhere => DoneResult.text = UploadRequest
        /\ ~NoImageAnywhere =>
              done.calls[2].images =
                  <<IF Len(done.images) > 0 THEN done.images[Len(done.images)]
                    ELSE MostRecentImage(done.history)>>

C12_Witness ==
    /\ DoneTool.name = "editImage"
    /\ Len(done.images) = 0
    /\ Cardinality(ImagePositions(done.history)) >= 2
    /\ done.calls[2].images = <<ReferenceBlob>>

\* C13: a generateFromReference dispatch passes all images of the turn in
\* order when the turn has any (whatever the history holds), exactly the most
\* recent history image when it has none, and with no image anywhere returns
\* an upload request without a generation call.
C13_ReferenceImages ==
    DoneTool.name = "generateFromReference" =>
        IF Len(done.images) > 0
        THEN Len(done.calls) = 2 /\ done.calls[2].images = done.images
        ELSE IF ImagePositions(done.history) # {}
        THEN Len(done.calls) = 2 /\ done.calls[2].images = <<MostRecentImage(done.history)>>
        ELSE /\ Len(done.calls) = 1
             /\ done.settled.kind = "return"
             /\ DoneResult.text = <<"Please upload your face image for consistency.">>
             /\ DoneResult.image = ImgAbsent

C13_Witness ==
    /\ DoneTool.name = "generateFromReference"
    /\ Len(done.images) = 2
    /\ ImagePositions(done.history) # {}
    /\ done.calls[2].images = done.images

\* ------------------------------------------------------------------------
\* Properties of tool selection and failure handling
\* ------------------------------------------------------------------------
\* C14: when the function-calling response carries several tool calls, the
\* gateway calls made and the result returned are those of a response that
\* carries the first call alone.
C14_FirstCallOnly ==
    (DoneSend /\ done.responses[1].kind = "ok" /\ done.responses[1].count > 1) =>
        LET alone == [kind |-> "ok", functionCalls |-> <<DoneTool>>,
                      text |-> done.responses[1].text]
            step == sendMessageDispatch(done.text, done.images, done.history, alone)
        IN IF step.kind = "call"
           THEN /\ Len(done.calls) = 2
                /\ done.calls[2] = step.request
                /\ done.settled = sendMessageResume(step.handler, step.arg, done.responses[2])
           ELSE /\ Len(done.calls) = 1
                /\ done.settled = step

C14_Witness ==
    /\ DoneSend
    /\ done.responses[1].kind = "ok" /\ done.responses[1].count = 2
    /\ DoneTool.name = "searchTheWeb"
    /\ Len(done.calls) = 2

\* A gateway call of the completed turn failed.
SomeCallFailed == \E k \in 1..Len(done.responses) : done.responses[k].kind = "throw"

\* C15: sendMessage never raises: every dispatch returns a result, and when
\* the tool selection or the handler's gateway call failed the result is a
\* non-empty text message without an image, stored as the turn's reply.
C15_NeverThrows ==
    DoneSend =>
        /\ done.settled.kind = "return"
        /\ SomeCallFailed =>
              /\ Truthy(DoneResult.text)
              /\ ~HasImage(DoneResult.image)
              /\ ~MessageOf(done.msgId).isLoading

C15_Witness ==
    /\ DoneSend
    /\ Len(done.responses) = 2
    /\ done.responses[2].kind = "throw"
    /\ done.settled.kind = "return"

HighTrafficMessage ==
    <<"I apologize, but I'm currently experiencing high traffic (Quota Exceeded). Please try again in a few moments.">>

\* Texts that tell the user about a usage limit: the high traffic message, or
\* an error text that carries a handler's usage-limit message.
NamesUsageLimit(text) ==
    \/ text = HighTrafficMessage
    \/ \E i \in 1..Len(text) :
          text[i] \in {"Usage limit exceeded. Please try again later.",
                       "Usage limit exceeded for image editing. Please try again later."}

\* A gateway call of the completed turn failed reporting resource exhaustion.
SomeCallExhausted ==
    \E k \in 1..Len(done.responses) :
        done.responses[k].kind = "throw" /\ QuotaSignal(done.responses[k].error)

\* C16 (as claimed, read in the code's favour): whichever gateway call of a
\* dispatched turn fails with 429 / RESOURCE_EXHAUSTED, the turn's result
\* text tells the user about the usage limit (the high traffic message, or
\* at least a usage-limit text) and not a generic failure.
C16_QuotaTextForEveryCall ==
    (DoneSend /\ SomeCallExhausted) => NamesUsageLimit(DoneResult.text)

\* C17: nothing is retried. A turn makes at most two gateway calls, one at a
\* time; a dispatch makes the tool selection call once and at most one call
\* of the selected tool, and none after a call that failed; the pipeline
\* makes the primary call once and at most one call of the secondary.
C17_NoRetry ==
    /\ \A t \in TaskIds :
          tasks[t] # IdleTask =>
              /\ Len(tasks[t].calls) = Len(tasks[t].responses) + 1
              /\ Len(tasks[t].calls) <= 2
              /\ \A k \in 1..Len(tasks[t].responses) :
                    tasks[t].op = "send" => tasks[t].responses[k].kind # "throw"
              /\ (tasks[t].op = "resume" /\ Len(tasks[t].calls) = 2) =>
                    /\ tasks[t].calls[1].api = "generateImages"
                    /\ tasks[t].calls[2].api = "generateContent"
    /\ (DoneSend \/ DoneResume) =>
          /\ Len(done.calls) = Len(done.responses)
          /\ Len(done.calls) <= 2
          /\ Len(done.calls) = 2 => done.calls[1].model # done.calls[2].model
    /\ DoneSend =>
          /\ done.calls[1].model = "gemini-flash-lite-latest"
          /\ done.responses[1].kind = "throw" => Len(done.calls) = 1

C17_Witness ==
    /\ DoneSend
    /\ Len(done.calls) = 2
    /\ done.responses[2].kind = "throw"

\* C18 (as claimed): when a gateway call of a dispatched turn fails with a
\* failure that is not quota-related, the turn's reply is a generic failure
\* text and the turn's message is marked as an error.
C18_GenericAndErrored ==
    (DoneSend /\ SomeCallFailed /\ ~SomeCallExhausted
       /\ \A k \in 1..Len(done.responses) :
             done.responses[k].kind = "throw" => ~isQuotaError(done.responses[k].error)) =>
        /\ ~NamesUsageLimit(MessageOf(done.msgId).text)
        /\ Truthy(MessageOf(done.msgId).text)
        /\ MessageOf(done.msgId).isError

\* ------------------------------------------------------------------------
\* Properties of the Consistency Memory
\* ------------------------------------------------------------------------
\* C19: a set of any of the four attributes can always be made, the get that
\* follows it returns exactly the bytes set whatever the slot held before
\* (so the slot holds the value of the last set), and the other three slots
\* keep their contents.
C19_SetThenGet ==
    /\ [](\A slot \in Slots, base64 \in MemoryValues : ENABLED CallSetReference(slot, base64))
    /\ [][ done'.op = "set" =>
            /\ done'.memories[done'.element] = done'.base64
            /\ memory'[done'.element] = done'.base64
            /\ \A s \in Slots \ {done'.element} :
                  memory'[s] = memory[s] /\ done'.memories[s] = memory[s] ]_vars

C19_Witness ==
    /\ done.op = "set"
    /\ done.before[done.element] \notin {Null, done.base64}
    /\ done.memories[done.element] = done.base64

\* C20: after clear(attribute) the get returns empty for that attribute and
\* the other slots keep their contents; after clearAll the get returns empty
\* for all four whatever they held; a clear or clearAll made right after the
\* same one changes nothing.
C20_ClearThenGet ==
    [][ /\ done'.op = "clear" =>
            /\ done'.memories[done'.element] = Null
            /\ memory'[done'.element] = Null
            /\ \A s \in Slots \ {done'.element} : memory'[s] = memory[s]
        /\ done'.op = "clearAll" =>
            \A s \in Slots : memory'[s] = Null /\ done'.memories[s] = Null
        /\ (done'.op \in {"clear", "clearAll"} /\ done.op = done'.op
               /\ done.element = done'.element) => memory' = memory ]_vars

C20_Witness ==
    /\ done.op = "clearAll"
    /\ \A s \in Slots : done.before[s] # Null
    /\ \A s \in Slots : done.memories[s] = Null

\* C21: the four slots are independent: a set or a clear of one attribute
\* leaves the other three slots as they were.
C21_SlotsIndependent ==
    [][ done'.op \in {"set", "clear"} =>
            \A s \in Slots \ {done'.element} :
                memory'[s] = memory[s] /\ done'.memories[s] = done'.before[s] ]_vars

C21_Witness ==
    /\ done.op = "clear"
    /\ \A s \in Slots : done.before[s] # Null
    /\ \A s \in Slots \ {done.element} : memory[s] = done.before[s]
    /\ memory[done.element] = Null

\* ------------------------------------------------------------------------
\* C22: Consistency Memory changes only through an explicit set or the
\* write-back of an extraction that succeeded: starting or finishing a
\* generation, starting an extraction, and every step of a chat turn leave
\* the four slots unchanged, and no step empties a slot that was set.
\* ------------------------------------------------------------------------
ExplicitSet ==
    /\ tasks' = tasks
    /\ \E slot \in Slots, b \in StudioBlobs : memory' = [memory EXCEPT ![slot] = b.data]

ExtractionWriteBack ==
    /\ done'.op = "extract"
    /\ done'.response.kind = "ok"
    /\ done'.response.inlineData # NoImage
    /\ memory' = [memory EXCEPT ![done'.type] = done'.response.inlineData.data]

C22_ChangesOnlyBySetOrExtraction ==
    [][/\ memory' # memory => ExplicitSet \/ ExtractionWriteBack
       /\ done'.op \in {"generateStart", "generate", "extractStart", "send", "resume"}
              => memory' = memory
       /\ \A s \in Slots : memory[s] # Null => memory'[s] # Null]_vars

\* A generation and a chat turn have both run to their end with a slot set.
C22_Witness ==
    /\ done.op = "generate"
    /\ memory.face # Null
    /\ memory.dress # Null
    /\ \E i \in 1..Len(messages) : messages[i].sender = "user" /\ messages[i].id > 0


\* ------------------------------------------------------------------------
\* C23: an extraction whose gateway call fails or returns no payload leaves
\* the four slots as they were, and so does an extraction that has started
\* and not completed: while one is pending, a slot changes only by an
\* explicit set of the user or when an extraction completes with a payload.
\* ------------------------------------------------------------------------
ExtractionFailed(d) ==
    /\ d.op = "extract"
    /\ \/ d.response.kind # "ok"
       \/ d.response.inlineData = NoImage
       \/ d.response.inlineData.data = ""

C23_FailedExtractionKeepsMemory ==
    [][/\ ExtractionFailed(done') => memory' = memory
       /\ done'.op = "extractStart" => memory' = memory
       /\ (\E t \in TaskIds : tasks[t] # IdleTask /\ tasks[t].op = "extract")
          /\ memory' # memory
             => ExplicitSet \/ ExtractionWriteBack]_vars

\* An extraction has failed while the slot it was started for was set.
C23_Witness ==
    /\ ExtractionFailed(done)
    /\ done.settled.kind = "throw"
    /\ memory[done.type] # Null


\* ------------------------------------------------------------------------
\* C24: a slot that is set holds the raw data of an image, never the text of
\* a data URI: the upload stores what follows the comma of the FileReader
\* result, and the extraction is asked about, and stores, raw data.
\* ------------------------------------------------------------------------
RawData == {b.data : b \in StudioBlobs \cup {GeneratedBlob, ExtractedBlob}}
DataUriTexts == {"data:" \o "image/png" \o ";base64," \o d : d \in RawData}

C24_SlotsHoldRawData ==
    /\ \A s \in Slots : memory[s] \in RawData \cup {Null}
    /\ \A s \in Slots : memory[s] \notin DataUriTexts
    /\ done.op = "extractStart" => done.request.images[1].data \in RawData

\* A slot set by an upload and a slot set by an extraction.
C24_Witness ==
    /\ done.op = "extract"
    /\ done.settled.kind = "return"
    /\ \E s \in Slots : memory[s] = ExtractedBlob.data
    /\ \E s \in Slots : \E b \in StudioBlobs : memory[s] = b.data


\* ------------------------------------------------------------------------
\* C25: a set, clear, clearAll, generation or extraction on one object leaves
\* every slot of the other object unchanged, and the request of a generation
\* is built from the slots of the object it was called on alone.
\* ------------------------------------------------------------------------
OwnMemory(self) == IF self = "app" THEN memory ELSE otherMemory

C25_ObjectsIndependent ==
    [][/\ done'.op \in {"set", "clear", "clearAll", "generateWithControl", "extractElement"}
          => /\ done'.self = "app" => otherMemory' = otherMemory
             /\ done'.self = "other" => memory' = memory
       /\ done'.op = "generateWithControl"
          => \E prompt \in StudioPrompts, r \in ASPECT_RATIOS :
                done'.request = generateWithControlRequest(OwnMemory(done'.self), prompt,
                                                           AllConsistent, r)]_vars

\* A generation on one object while the two objects hold different values in
\* a slot and the other holds a slot the first does not.
C25_Witness ==
    /\ done.op = "generateWithControl"
    /\ done.self = "app"
    /\ memory.face = "M"
    /\ otherMemory.face = "N"
    /\ memory.dress = Null
    /\ otherMemory.dress # Null


\* ------------------------------------------------------------------------
\* C26: while a generation or an extraction of the studio is in flight, no
\* other operation writes a slot: the only step that changes memory then is
\* the completion of the extraction in flight.
\* ------------------------------------------------------------------------
StudioInFlight ==
    \E t \in TaskIds : tasks[t] # IdleTask /\ tasks[t].op \in {"generate", "extract"}

C26_NoWriteWhileInFlight ==
    [][StudioInFlight /\ memory' # memory => done'.op = "extract" /\ tasks' # tasks]_vars


\* ------------------------------------------------------------------------
\* C27: when the resume of a pending generation has completed, its message
\* no longer awaits a ratio and no longer loads, and it carries the
\* generated image (success) or is marked as an error (failure).
\* ------------------------------------------------------------------------
C27_ResumeResolves ==
    DoneResume =>
        LET msg == MessageOf(done.msgId)
        IN /\ ~msg.needsAspectRatio
           /\ ~msg.isLoading
           /\ \/ /\ done.settled.kind = "return"
                 /\ Len(msg.images) = 1 /\ HasImage(msg.images[1])
                 /\ ~msg.isError
              \/ /\ done.settled.kind = "throw"
                 /\ msg.isError
                 /\ msg.text = <<"Error: ">> \o done.settled.error.message

\* A resume that failed in both backends.
C27_Witness ==
    /\ DoneResume
    /\ done.settled.kind = "throw"
    /\ Len(done.responses) = 2
    /\ MessageOf(done.msgId).isError


\* ------------------------------------------------------------------------
\* C28: a message that awaits its ratio keeps awaiting it, with the prompt
\* it stored, through every step of other operations (sends, regenerations,
\* resizes, resumes of other messages); the only step that ends the wait is
\* the selection of its own ratio, which hands exactly the stored prompt to
\* the generation; and the prompt stored when the wait begins is the one of
\* the deferred call.
\* ------------------------------------------------------------------------
ResumeStartsFor(msg) ==
    \E t \in TaskIds :
        /\ tasks[t] = IdleTask
        /\ tasks'[t] # IdleTask
        /\ tasks'[t].op = "resume"
        /\ tasks'[t].msgId = msg.id
        /\ tasks'[t].prompt = msg.prompt
        /\ tasks'[t].calls =
              <<executeGenerateImageRequest1(
                    createAdvancedResizePrompt(cleanPromptForResize(msg.prompt),
                                               tasks'[t].aspectRatio),
                    tasks'[t].aspectRatio)>>

C28_PendingStaysValid ==
    [][/\ Len(messages') >= Len(messages)
       /\ \A i \in 1..Len(messages) :
             messages[i].needsAspectRatio
             => \/ /\ messages'[i].id = messages[i].id
                   /\ messages'[i].needsAspectRatio
                   /\ messages'[i].prompt = messages[i].prompt
                \/ ResumeStartsFor(messages[i])
       /\ \A i \in 1..Len(messages) :
             ~messages[i].needsAspectRatio /\ messages'[i].needsAspectRatio
             => /\ done'.op \in {"send", "regenerate"}
                /\ done'.msgId = messages[i].id
                /\ messages'[i].prompt = done'.settled.value.pendingPrompt]_vars

\* The resume of a regenerated message has completed, after a further send,
\* while the generation deferred earlier still awaits its ratio.
C28_Witness ==
    /\ done.op = "resume"
    /\ done.msgId = -1
    /\ \E i \in 1..Len(messages) :
          /\ messages[i].id = -3
          /\ messages[i].needsAspectRatio
          /\ messages[i].prompt = PendingPrompt
    /\ \E j \in 1..Len(messages) : messages[j].id > 0 /\ messages[j].sender = "user"

\* ------------------------------------------------------------------------
\* C29: a message whose deferred generation is resolved (its ratio was
\* supplied and the generation succeeded or failed) never awaits a ratio
\* again: a regeneration of a resolved message does not leave it awaiting.
\* ------------------------------------------------------------------------
Resolved(msg) ==
    /\ msg.sender = "bot"
    /\ ~msg.isLoading
    /\ ~msg.needsAspectRatio
    /\ \/ msg.isError /\ Truthy(msg.prompt)
       \/ /\ Len(msg.images) = 1
          /\ msg.text = <<"Here is the image I generated for you with your selected aspect ratio.">>

C29_ResolvedNeverAwaitsAgain ==
    done.op = "regenerate" /\ Resolved(done.clicked)
    => \A i \in 1..Len(messages) :
          messages[i].id = done.msgId => ~messages[i].needsAspectRatio


\* ------------------------------------------------------------------------
\* C30: the prompt builder removes every orientation / ratio keyword from
\* the raw prompt before detection and keeps the other words in order; the
\* subject, environment and style are the first keyword of their list that
\* occurs in the cleaned prompt, or "subject" / "environment" / "realistic";
\* for "a lion in the desert, landscape" and 9:16 the subject is lion, the
\* environment desert, and the output names 9:16 with the vertical guidance
\* and has no word 'landscape'.
\* ------------------------------------------------------------------------
IsFirstOccurring(keyword, list, words, default) ==
    IF \E i \in 1..Len(list) : Occurs(list[i], words)
    THEN \E i \in 1..Len(list) :
            /\ keyword = list[i]
            /\ Occurs(list[i], words)
            /\ \A k \in 1..(i - 1) : ~Occurs(list[k], words)
    ELSE keyword = default

C30_BuildGenerationPrompt ==
    done.op = "fullPrompt" =>
        LET cleaned == done.cleanedPrompt
            out == done.fullPrompt
        IN /\ \A j \in 1..Len(cleaned) : Lower(cleaned[j]) \notin ResizeTerms
           /\ cleaned = SelectSeq(done.prompt, LAMBDA w : Lower(w) \notin ResizeTerms)
           /\ out.scene = cleaned
           /\ out.target = done.aspectRatio
           /\ IsFirstOccurring(out.subject, Subjects, cleaned, "subject")
           /\ IsFirstOccurring(out.environment, Environments, cleaned, "environment")
           /\ IsFirstOccurring(out.style, Styles, cleaned, "realistic")
           /\ done.prompt = LionInTheDesert /\ done.aspectRatio = <<"9:16">>
              => /\ out.subject = "lion"
                 /\ out.environment = "desert"
                 /\ out.ratio.heading = "VERTICAL PORTRAIT (9:16)"
                 /\ "vertical" \in out.ratio.words
                 /\ out.size = "1080x1920 pixels"
                 /\ \A j \in 1..Len(out.scene) : Lower(out.scene[j]) # "landscape"
                 /\ "landscape" \notin out.ratio.words

\* The prompt of the example built for 9:16.
C30_Witness ==
    /\ done.op = "fullPrompt"
    /\ done.prompt = LionInTheDesert
    /\ done.aspectRatio = <<"9:16">>
    /\ done.cleanedPrompt = <<"a", "lion", "in", "the", "desert", ",">>


\* ------------------------------------------------------------------------
\* C31: no step of a send, resume, resize, regeneration or feedback changes
\* or removes a user turn that is in the conversation, and the messages
\* already there keep their places (identifier and sender at each index).
\* ------------------------------------------------------------------------
C31_UserTurnsImmutable ==
    [][/\ Len(messages') >= Len(messages)
       /\ \A i \in 1..Len(messages) :
             /\ messages'[i].id = messages[i].id
             /\ messages'[i].sender = messages[i].sender
             /\ messages[i].sender = "user" => messages'[i] = messages[i]]_vars

\* A resume has completed in a conversation with a new user turn and a
\* message that was given feedback.
C31_Witness ==
    /\ done.op = "resume"
    /\ \E j \in 1..Len(messages) : messages[j].id > 0 /\ messages[j].sender = "user"
    /\ \E k \in 1..Len(messages) : messages[k].feedback = <<"liked">>


\* ------------------------------------------------------------------------
\* C32: a turn is sent with the stored face references followed by its own
\* uploads as attached images, and a dispatch that carries attached images
\* and whose tool call is generateImage never awaits a ratio: it issues the
\* reference-based generation with all attached images.
\* ------------------------------------------------------------------------
C32_FaceReferencesReroute ==
    [][/\ \A t \in TaskIds :
             tasks[t] = IdleTask /\ tasks'[t] # IdleTask /\ tasks'[t].op = "send"
             => /\ tasks'[t].images = faceReferences \o uploadedImages
                /\ tasks'[t].calls[1].images = faceReferences \o uploadedImages
       /\ ( /\ done'.op = "send"
            /\ done'.responses[1].kind = "ok"
            /\ done'.responses[1].tool.name = "generateImage"
            /\ Len(done'.images) > 0 )
          => /\ done'.settled.kind = "return"
             /\ ~done'.settled.value.needsAspectRatio
             /\ Len(done'.calls) = 2
             /\ done'.calls[2] =
                    generateFromReferenceRequest(done'.responses[1].tool.args.prompt,
                                                 done'.images)
             /\ \A i \in 1..Len(messages') :
                    messages'[i].id = done'.msgId => ~messages'[i].needsAspectRatio]_vars

\* A generateImage call in a turn sent with a stored face reference and an
\* upload of its own.
C32_Witness ==
    /\ DoneTool.name = "generateImage"
    /\ Len(done.images) = 2
    /\ done.images[1] \in FaceBlobs
    /\ done.images[2] \in UserBlobs
    /\ Len(done.calls) = 2


\* ------------------------------------------------------------------------
\* C33: when the call of editImage or of the reference-based generation
\* succeeds without an image, no further call is made and the dispatch
\* returns a result with an empty image and a text (the response's, or the
\* handler's explanation); the turn's message has no image and is not
\* marked as an error.
\* ------------------------------------------------------------------------
NoImageReturned ==
    /\ DoneSend
    /\ Len(done.calls) >= 2
    /\ done.calls[2].prompt.template \in {"edit", "reference"}
    /\ done.responses[2].kind = "ok"
    /\ done.responses[2].inlineData = NoImage

C33_NoImageIsNotAnError ==
    NoImageReturned =>
        /\ Len(done.calls) = 2
        /\ done.settled.kind = "return"
        /\ DoneResult.image = ImgEmpty
        /\ DoneResult.text =
              OrElse(done.responses[2].text,
                     IF done.calls[2].prompt.template = "edit"
                     THEN <<"I was unable to edit the image as requested. Please try a different prompt.">>
                     ELSE <<"I was unable to generate the image from the reference.">>)
        /\ Truthy(DoneResult.text)
        /\ LET msg == MessageOf(done.msgId)
           IN /\ msg.images = <<>>
              /\ ~msg.isError
              /\ ~msg.isLoading
              /\ msg.text = DoneResult.text

\* An edit whose response carries neither an image nor a text.
C33_Witness ==
    /\ NoImageReturned
    /\ done.calls[2].prompt.template = "edit"
    /\ done.responses[2].text = <<>>


\* ------------------------------------------------------------------------
\* C34: for every combination of outcomes of the primary and the secondary
\* backend, the resume either returns the image of the first backend that
\* produced one, with the prompt it was given, or throws; it throws exactly
\* when neither backend produced an image.
\* ------------------------------------------------------------------------
C34_ResumeReturnsImageOrThrows ==
    DoneResume =>
        LET first == done.responses[1]
            produced == \E k \in 1..Len(done.responses) : YieldsImage(done.responses[k])
        IN /\ done.settled.kind \in {"return", "throw"}
           /\ done.settled.kind = "return" <=> produced
           /\ done.settled.kind = "return"
              => /\ HasImage(DoneResult.image)
                 /\ DoneResult.image =
                       IF YieldsImage(first)
                       THEN DataUri("image/png", first.imageBytes)
                       ELSE DataUri(done.responses[2].inlineData.mimeType,
                                    done.responses[2].inlineData.data)
                 /\ DoneResult.prompt = done.prompt
           /\ done.settled.kind = "throw" => Truthy(done.settled.error.message)

\* The primary backend threw and the secondary returned no image.
C34_Witness ==
    /\ DoneResume
    /\ Len(done.responses) = 2
    /\ done.responses[1].kind = "throw"
    /\ done.responses[2].kind = "ok"
    /\ done.responses[2].inlineData = NoImage
    /\ done.settled.kind = "throw"


\* ------------------------------------------------------------------------
\* C35: isProcessing is true whenever a send, a resume of a pending
\* generation, a resize or a regenerate has a gateway call outstanding
\* (so no completion clears the flag while another operation is in flight).
\* ------------------------------------------------------------------------
C35_ProcessingWhileInFlight ==
    \A t \in TaskIds :
        (tasks[t] # IdleTask /\ tasks[t].op \in {"send", "resume", "resize", "regenerate"})
            => isProcessing

\* ------------------------------------------------------------------------
\* C36: a send turn ends with isProcessing false whatever happened to the
\* resize dialog: once no gateway call is outstanding and the resize dialog
\* is closed, isProcessing is false and sending is enabled again.
\* ------------------------------------------------------------------------
C36_QuiescentMeansNotProcessing ==
    (/\ \A t \in TaskIds : tasks[t] = IdleTask
     /\ inflight = {}
     /\ resizeTask = NoResizeTask)
        => ~isProcessing

\* ------------------------------------------------------------------------
\* C37: in a studio generation every attribute the prompt tells the model to
\* keep exactly as in the reference has its reference image attached, and
\* the attached images are exactly the non-empty slots flagged 'consistent',
\* in the order face, dress, background, environment, before the text.
\* ------------------------------------------------------------------------
C37_KeptAttributesAreAttached ==
    (done # NoDone /\ done.op = "generateStart") =>
        LET request == done.request
            kept == SelectSeq(SlotOrder,
                        LAMBDA slot : \E i \in 1..Len(request.prompt.instructions) :
                                        request.prompt.instructions[i] = KeepInstruction[slot])
        IN /\ Len(request.images) = Len(kept)
           /\ \A i \in 1..Len(kept) :
                /\ request.images[i].mimeType = "image/png"
                /\ request.images[i].data = memory[kept[i]]
                /\ memory[kept[i]] \notin {Null, ""}

\* ------------------------------------------------------------------------
\* C38: the history handed to the dispatcher by a send or a regenerate holds
\* one entry for each message that is not the greeting, not loading, not
\* errored and has at least one part, in conversation order and nothing
\* else; a regenerate takes only the messages before the user message that
\* the regenerated reply answers.
\* ------------------------------------------------------------------------
\* The index of the user message a reply at index i answers.
OriginatingUser(i) ==
    CHOOSE u \in 1..(i - 1) :
        /\ messages[u].sender = "user"
        /\ \A k \in (u + 1)..(i - 1) : messages[k].sender # "user"

\* The messages a history starting in this state may draw from.
HistoryScope(task) ==
    IF task.op = "send" THEN Len(messages)
    ELSE LET i == CHOOSE i \in 1..Len(messages) : messages[i].id = task.msgId
         IN OriginatingUser(i) - 1

Eligible(scope) ==
    {i \in 1..scope : /\ messages[i].id # 0
                      /\ ~messages[i].isLoading
                      /\ ~messages[i].isError
                      /\ \/ messages[i].text # <<>>
                         \/ Len(messages[i].images) > 0}

\* The k-th smallest element of a set of indices.
Nth(S, k) == CHOOSE i \in S : Cardinality({j \in S : j < i}) = k - 1

C38_HistoryOfTurn ==
    [][\A t \in TaskIds :
        (tasks[t] = IdleTask /\ tasks'[t] # IdleTask
         /\ tasks'[t].op \in {"send", "regenerate"})
        => LET history == tasks'[t].history
               from == Eligible(HistoryScope(tasks'[t]))
           IN /\ Len(history) = Cardinality(from)
              /\ \A k \in 1..Len(history) :
                    LET msg == messages[Nth(from, k)]
                    IN /\ history[k].role = (IF msg.sender = "user" THEN "user" ELSE "model")
                       /\ Len(history[k].parts) >= 1
                       /\ Len(history[k].parts) =
                            (IF msg.text # <<>> THEN 1 ELSE 0) + Len(msg.images)
                       /\ msg.text # <<>> => history[k].parts[1] = TextPart(msg.text)
                       /\ \A j \in 1..Len(msg.images) :
                            LET part == history[k].parts[Len(history[k].parts)
                                                         - Len(msg.images) + j]
                            IN /\ part.kind = "inlineData"
                               /\ part.data = msg.images[j].data
                               /\ part.mimeType = msg.images[j].mimeType
              /\ tasks'[t].calls[1].prompt.history = history]_vars

\* A regenerate in flight whose history left out the errored reply that
\* precedes the originating user message.
C38_Witness ==
    \E t \in TaskIds :
        /\ tasks[t] # IdleTask
        /\ tasks[t].op = "regenerate"
        /\ tasks[t].msgId = -1
        /\ Len(tasks[t].history) = 1
        /\ Len(messages) = 5
        /\ messages[3].isError

\* ------------------------------------------------------------------------
\* C39: the face references survive every turn. Starting a send or a
\* regenerate leaves them unchanged; its completion leaves them unchanged
\* unless the dispatch result has resetMemory = true, and then they become
\* empty; a send empties the uploaded images when it starts; apart from
\* completions the face references change only by appending an added image
\* or by removing one entry.
\* ------------------------------------------------------------------------
TurnCompletes == done' # NoDone /\ done'.op \in {"send", "regenerate"}

TurnStarts(op) ==
    \E t \in TaskIds : tasks[t] = IdleTask /\ tasks'[t] # IdleTask /\ tasks'[t].op = op

C39_FaceReferencesSurvive ==
    [][/\ TurnStarts("send")
          => /\ faceReferences' = faceReferences
             /\ uploadedImages' = <<>>
       /\ TurnStarts("regenerate")
          => /\ faceReferences' = faceReferences
             /\ uploadedImages' = uploadedImages
       /\ TurnCompletes
          => /\ faceReferences' =
                   IF done'.settled.kind = "return" /\ done'.settled.value.resetMemory
                   THEN <<>> ELSE faceReferences
             /\ uploadedImages' = uploadedImages
       /\ (~TurnCompletes /\ faceReferences' # faceReferences)
          => /\ tasks' = tasks /\ messages' = messages
             /\ \/ \E b \in FaceBlobs : faceReferences' = Append(faceReferences, b)
                \/ \E i \in 1..Len(faceReferences) :
                        faceReferences' = RemoveAt(faceReferences, i)]_vars

\* A completed turn without a reset that kept the stored face reference, the
\* turn's own upload having been cleared.
C39_Witness ==
    /\ done # NoDone
    /\ done.op \in {"send", "regenerate"}
    /\ done.settled.kind = "return"
    /\ ~done.settled.value.resetMemory
    /\ Len(done.images) = 2
    /\ Len(faceReferences) = 1
    /\ done.images[1] = faceReferences[1]
    /\ uploadedImages = <<>>

====
